---- MODULE Spec2Model ----
(***************************************************************************)
(* Transcription session core of the whisper subtitle plugin.              *)
(*                                                                         *)
(* Spec       the local-server path: overlapping transcribe calls, the     *)
(*            module-level activeServerInfo, the PID record and the        *)
(*            backend processes.  The clock of waitForServerReady is       *)
(*            abstracted here: the deadline test is a nondeterministic     *)
(*            choice.                                                      *)
(* SpecStop   Spec plus a caller that tears a session down again after     *)
(*            the transcription call has ended.                            *)
(* SpecRecover  Spec plus the orphan-recovery routine of the global entry  *)
(*            script, started with what a previous run left behind.        *)
(* SpecReady  one startWhisperServer call with the clock of                *)
(*            waitForServerReady in milliseconds.                          *)
(* SpecFlush  one transcribeWithOpenAI call: the chunk callbacks, the      *)
(*            write chain of the stream handler and waitForFlush.          *)
(* SpecLog    startLogMonitor: the polling loop and finalize.              *)
(* SpecLogLive  SpecLog with the timers and continuations weakly fair.     *)
(* SpecPoll   the polls of the loop over a log that grows, line by line.   *)
(* SpecWrite  the write-throughs of both variants on the subtitle file.    *)
(* SpecEvents the collection of the stream handler, line by line.          *)
(* SpecReplace  the same with the write-throughs running in between.       *)
(* SpecBlankFinal  the same on final transcripts without any text.         *)
(* SpecNormalize  one segment, normalized for the collection and for its   *)
(*            block.                                                       *)
(* SpecSplit  the response stream as text, cut into chunks.                *)
(* SpecNonStream  the non-streaming request of src/transcribe.js.          *)
(* SpecPrepare  prepareAudioForOpenAI and the size limit.                  *)
(* SpecChunks the window loop of the chunked variant, with the documents   *)
(*            it writes.                                                   *)
(* SpecStamp, SpecRoundTrip, SpecLogRender  timestamps and documents       *)
(*            as text: format and parse, render and parse, log to          *)
(*            document.                                                    *)
(*                                                                         *)
(* File operations on the PID record (write, exists, read, delete) are     *)
(* taken to succeed; signals sent with /bin/kill may fail in every way     *)
(* the code distinguishes.                                                 *)
(***************************************************************************)
EXTENDS Integers, Sequences, FiniteSets, TLC

(* ------------------------------ bounds -------------------------------- *)
\* overlapping transcribe calls (subtitle downloads requested by the user)
NumCalls == 2
\* runs of the orphan-recovery routine (plugin load, window-will-close, ...)
NumRecoveries == 2
\* stopWhisperServer calls per session in SpecStop
MaxTeardowns == 2

Calls == 1..NumCalls
Recoveries == 1..NumRecoveries

(* --------------------------- values ----------------------------------- *)
\* a falsy pid: null, NaN, no session
NoPid == 0
\* the PID record does not exist
Absent == 0
\* the PID record exists and parseInt of its content is NaN
Garbage == -1
\* the pid a previous run of the application left in the PID record
StalePid == 1
\* the pid `echo $!` prints for the backend spawned by call p
PidOf(p) == StalePid + p

SessionPids == {PidOf(p) : p \in Calls}
Pids == {StalePid} \cup SessionPids

\* what utils.exec("/bin/kill", ...) does: the signal is delivered, or the
\* call throws an error whose message matches /No such process/, or it
\* throws another error
KillOutcomes == {"delivered", "nosuch", "failed"}

VARIABLES
    pc,               \* pc[p]: where call p of transcribe stands
    server,           \* server[p]: pid of the serverInfo call p created
    err,              \* err[p]: the error call p will throw ("none")
    sessionReturned,  \* sessionReturned[p]: startWhisperServer returned
    stopPid,          \* stopPid[p]: local pid of the running stopWhisperServer
    stopLog,          \* stopLog[p]: effects of the current/last stop call
    stopCount,        \* stopCount[p]: finished stopWhisperServer(server[p])
    stopRaised,       \* stopRaised[p]: a stopWhisperServer call threw
    recordAfterStop,  \* recordAfterStop[p]: PID record when stop returned
    activeServerInfo, \* module-level current session (its pid) or NoPid
    pidFile,          \* content of @tmp/whisper_server.pid
    alive,            \* pids of running backend processes
    rpc,              \* rpc[r]: where recovery run r stands
    rpid,             \* rpid[r]: pid read by recovery run r
    rLog,             \* rLog[r]: signals sent by recovery run r
    rEndRecord,       \* rEndRecord[r]: PID record when run r finished
    now,              \* Date.now(), in ms since waitForServerReady began
    deadline,         \* waitForServerReady: deadline
    issuedAt,         \* when the health probe in flight was sent
    lastError,        \* waitForServerReady: lastError ("none": undefined)
    lastAnswer,       \* what the latest failed probe reported
    okIssuedAt,       \* when the probe that answered 200 was sent (-1: none)
    readyAt,          \* the backend answers 200 to probes sent from then on
    ideal,            \* no probe and no timer has been late so far
    opc,              \* where the transcribeWithOpenAI call stands
    oerr,             \* the error transcribeWithOpenAI will throw ("none")
    tasks,            \* the write-throughs scheduled by scheduleFlush, in order
    writeChain,       \* the handler's writeChain: index of its last promise
    waitTail,         \* the promise a running waitForFlush awaits
    chunks,           \* chunk callbacks delivered so far
    docVer,           \* the segment collection, as the number of its updates
    fileVer,          \* the collection the subtitle file was rendered from
    subtitleFile,     \* the document @tmp/whisper_tmp.wav.srt holds
    ioLog,            \* the latest two operations on the subtitle track
    lpc,              \* where the polling loop of startLogMonitor stands
    mpc,              \* where streamTranscription stands
    merr,             \* the error streamTranscription will throw ("none")
    stopRequested,    \* startLogMonitor: stopRequested
    finalSrt,         \* what the inference request returned
    logSegs,          \* startLogMonitor: segments.length
    finalWritten,     \* finalize has written the final document
    segments,         \* createOpenAIStreamHandler: segments
    segmentMap,       \* createOpenAIStreamHandler: segmentMap (positions from 1)
    scheduledFlushes, \* scheduleFlush calls made by the handler
    broken,           \* an exception has left handleChunk
    processed,        \* the lines processLine has been given, in order
    finalized,        \* handler.finalize() has run
    npc,              \* where the non-streaming transcribeWithOpenAI stands
    nerr,             \* the error it will throw ("none")
    responseBody,     \* the body the remote backend answers with
    writtenSrt,       \* what it has written to the subtitle file ("none")
    qpc,              \* where prepareAudioForOpenAI and its caller stand
    qerr,             \* the error transcribe will throw ("none")
    wavSize,          \* size in bytes stat reports for the WAV file
    mp3Size,          \* size in bytes stat reports for the re-encoded file
    upload,           \* the file prepareAudioForOpenAI returned ("none")
    cpc,              \* where the chunked streamTranscription stands
    cerr,             \* the error it will throw ("none")
    totalDurationMs,  \* streamTranscription: totalDurationMs (0: null)
    processedMs,      \* streamTranscription: processedMs
    chunkIndex,       \* streamTranscription: chunkIndex
    windowLog,        \* the windows begun so far, in order
    wholeRequests,    \* whole-file inference requests made
    aggregatedSegments, \* streamTranscription: aggregatedSegments
    answered,         \* the blocks the backend answered for each window that succeeded
    tpc,              \* timestamp conversion: "input", "formatted", "parsed"
    tsMs,             \* the milliseconds given to formatTimestamp
    tsText,           \* the text formatTimestamp returned
    tsParsed,         \* what parseTimestampMs made of that text
    spc,              \* document round trip: "input" ... "rerendered"
    srtIn,            \* the blocks rendered first
    srtDoc,           \* their document
    srtParsed,        \* what parseSrtBlocks made of the document
    srtDoc2,          \* the document rendered from the parsed blocks
    gpc,              \* log rendering: "input", "collected", "rendered"
    logContent,       \* the lines of the backend log
    collected,        \* startLogMonitor: segments, after collectNewSegments
    logDoc,           \* the document rendered from them
    flushesRun,       \* write-throughs of the stream handler that have run
    stream,           \* the text of the response stream
    sent,             \* how many of its characters the chunks have brought
    buffer,           \* createOpenAIStreamHandler: buffer
    cutInside,        \* a chunk has ended inside a line
    pollLog,          \* the lines the backend has logged so far
    seen,             \* startLogMonitor: seen
    pollSegments,     \* startLogMonitor: segments, over the polls
    pollCount,        \* iterations of the polling loop so far
    polledLines,      \* how many lines the log had at the latest poll
    pollUpdated,      \* what collectNewSegments returned at the latest poll
    zpc,              \* normalization: "input", "stored", "rendered"
    rawSegment,       \* the segment of a segment event, as the backend sent it
    storedSegment,    \* what normalizeOpenAISegment made of it
    renderable        \* what normalizeRenderableSegment made of that

srvVars == <<pc, server, err, sessionReturned, stopPid, stopLog, stopCount,
             stopRaised, recordAfterStop, activeServerInfo, pidFile, alive>>
recVars == <<rpc, rpid, rLog, rEndRecord>>
rdyVars == <<now, deadline, issuedAt, lastError, lastAnswer, okIssuedAt, readyAt, ideal>>
flushVars == <<opc, oerr, tasks, writeChain, waitTail, chunks, docVer, fileVer>>
ioVars == <<subtitleFile, ioLog>>
logVars == <<lpc, mpc, merr, stopRequested, finalSrt, logSegs, finalWritten>>
evVars == <<segments, segmentMap, scheduledFlushes, broken, processed, finalized>>
nsVars == <<npc, nerr, responseBody, writtenSrt>>
prVars == <<qpc, qerr, wavSize, mp3Size, upload>>
ckVars == <<cpc, cerr, totalDurationMs, processedMs, chunkIndex, windowLog,
            wholeRequests, aggregatedSegments, answered>>
tsVars == <<tpc, tsMs, tsText, tsParsed>>
srtVars == <<spc, srtIn, srtDoc, srtParsed, srtDoc2>>
lgVars == <<gpc, logContent, collected, logDoc>>
rpVars == <<flushesRun>>
spVars == <<stream, sent, buffer, cutInside>>
plVars == <<pollLog, seen, pollSegments, pollCount, polledLines, pollUpdated>>
nzVars == <<zpc, rawSegment, storedSegment, renderable>>
moreVars == <<prVars, ckVars, tsVars, srtVars, lgVars, rpVars, spVars, plVars,
             nzVars>>
extVars == <<logVars, evVars, nsVars, moreVars>>
vars == <<srvVars, recVars, rdyVars, flushVars, ioVars, extVars>>

\* what the steps of a transcribe call leave alone, and what the steps of
\* the recovery routine leave alone besides the calls' own variables
callFrame == <<recVars, rdyVars, flushVars, ioVars, extVars>>
recFrame == <<rdyVars, flushVars, ioVars, extVars>>
\* what the steps of the log monitor leave alone besides the subtitle file
logFrame == <<srvVars, recVars, rdyVars, flushVars, evVars, nsVars, moreVars>>
\* what the chunk callbacks of the stream handler leave alone
evFrame == <<srvVars, recVars, rdyVars, flushVars, ioVars, logVars, nsVars, moreVars>>
\* what the non-streaming request leaves alone
nsFrame == <<srvVars, recVars, rdyVars, flushVars, ioVars, logVars, evVars, moreVars>>
\* the variables of the session, stream and request models above
\* the same without the subtitle file
baseVars0 == <<srvVars, recVars, rdyVars, flushVars, logVars, nsVars>>
baseVars == <<srvVars, recVars, rdyVars, flushVars, ioVars, logVars, evVars, nsVars>>
\* what audio preparation for the remote backend leaves alone
prFrame == <<baseVars, ckVars, tsVars, srtVars, lgVars, rpVars, spVars, plVars, nzVars>>
\* what the chunk loop leaves alone besides the subtitle file
ckFrame == <<srvVars, recVars, rdyVars, flushVars, logVars, evVars, nsVars, prVars,
             tsVars, srtVars, lgVars, rpVars, spVars, plVars, nzVars>>
\* what the timestamp conversions leave alone
tsFrame == <<baseVars, prVars, ckVars, srtVars, lgVars, rpVars, spVars, plVars, nzVars>>
\* what rendering and parsing a document leave alone
srtFrame == <<baseVars, prVars, ckVars, tsVars, lgVars, rpVars, spVars, plVars, nzVars>>
\* what the chunks of a stream of text leave alone
spFrame == <<srvVars, recVars, rdyVars, flushVars, ioVars, logVars, nsVars,
             prVars, ckVars, tsVars, srtVars, lgVars, rpVars, plVars, nzVars>>
\* what collecting and rendering the log leave alone
lgFrame == <<baseVars, prVars, ckVars, tsVars, srtVars, rpVars, spVars, plVars, nzVars>>
\* what normalizing one segment leaves alone
nzFrame == <<baseVars0, evVars, prVars, ckVars, tsVars, srtVars, lgVars, rpVars,
             spVars, plVars>>
\* what a poll of the log leaves alone besides the subtitle file
plFrame == <<baseVars0, evVars, prVars, ckVars, tsVars, srtVars, lgVars, rpVars,
             spVars, nzVars>>

(* ----------------------- PID record helpers --------------------------- *)
\* rememberServerPid: file.write(pidPath, `${pid}`)
RememberServerPid(pid) == pid

\* clearRecordedServerPid: the record is deleted when it exists
ClearRecordedServerPid(f) == Absent

\* readRecordedServerPid: null when absent or not a finite number
ReadRecordedServerPid(f) == IF f \in {Absent, Garbage} THEN NoPid ELSE f

\* file.exists(pidPath), as 1 or 0
RecordExists(f) == IF f = Absent THEN 0 ELSE 1

\* a signal to pid can have outcome o
Possible(o, pid) ==
    \/ o = "delivered" /\ pid \in alive
    \/ o = "nosuch" /\ pid \notin alive
    \/ o = "failed"

\* the effect of a signal on the backend processes: KILL ends the process,
\* TERM asks it to end (BackendExits is its answer)
Signalled(sig, o, pid) ==
    IF sig = "KILL" /\ o = "delivered" THEN alive \ {pid} ELSE alive

(* ------------------------- stopWhisperServer -------------------------- *)
\* a catch block of stopWhisperServer has caught a failed kill and rethrows
\* what is not "No such process"
StopSwallows_Rethrow(o) == o # "failed"

\* the catch blocks around the two /bin/kill calls log and never rethrow
StopSwallows(o) == TRUE

\* console.warn in those catch blocks: every error but "No such process"
Warned(o, pid) == IF o = "failed" THEN << <<"WARN", pid>> >> ELSE <<>>

\* the record is cleared only together with the current-session reference
StopFinalRecord_OnlyActive(active, pid, f) ==
    IF active # NoPid /\ active = pid THEN ClearRecordedServerPid(f) ELSE f

\* the last statement of stopWhisperServer: clearRecordedServerPid(),
\* whatever activeServerInfo holds
StopFinalRecord(active, pid, f) == ClearRecordedServerPid(f)

\* activeServerInfo after `if (activeServerInfo && activeServerInfo.pid === pid)`
StopFinalActive(active, pid) == IF active # NoPid /\ active = pid THEN NoPid ELSE active

\* the caller's continuation once stopWhisperServer has settled: `throw error`
\* in startWhisperServer, the end of the finally block in
\* transcribeWithWhisperServer (the pending return or exception goes on)
AfterStop(e) == IF e = "none" THEN "returned" ELSE "thrown"

\* stopWhisperServer(server[p]) up to its first await, run by call p that
\* will throw e ("none": return) once the teardown is over
StopEnter(p, e) ==
    LET info == IF server[p] # NoPid THEN server[p] ELSE activeServerInfo
        recordedPid == ReadRecordedServerPid(pidFile)
        pid == IF info # NoPid THEN info ELSE recordedPid
    IN  /\ err' = [err EXCEPT ![p] = e]
        /\ stopPid' = [stopPid EXCEPT ![p] = pid]
        /\ UNCHANGED <<activeServerInfo, alive, stopRaised>>
        /\ IF pid = NoPid
           THEN /\ pidFile' = ClearRecordedServerPid(pidFile)
                /\ stopLog' = [stopLog EXCEPT ![p] = << <<"CLEAR", RecordExists(pidFile)>> >>]
                /\ stopCount' = [stopCount EXCEPT ![p] = @ + 1]
                /\ recordAfterStop' = [recordAfterStop EXCEPT ![p] = pidFile']
                /\ pc' = [pc EXCEPT ![p] = AfterStop(e)]
           ELSE /\ stopLog' = [stopLog EXCEPT ![p] = << <<"TERM", pid>> >>]
                /\ pc' = [pc EXCEPT ![p] = "stop_term"]
                /\ UNCHANGED <<pidFile, stopCount, recordAfterStop>>

\* stopWhisperServer from the KILL attempt's end to its return
StopFinish(p, o) ==
    LET pid == stopPid[p]
        cleared == StopFinalRecord(activeServerInfo, pid, pidFile)
    IN  /\ activeServerInfo' = StopFinalActive(activeServerInfo, pid)
        /\ pidFile' = cleared
        /\ stopLog' = [stopLog EXCEPT ![p] =
               @ \o Warned(o, pid)
                 \o (IF activeServerInfo' # activeServerInfo
                     THEN << <<"UNSET", pid>> >> ELSE <<>>)
                 \o (IF cleared = ClearRecordedServerPid(pidFile)
                     THEN << <<"CLEAR", RecordExists(pidFile)>> >> ELSE <<>>)]
        /\ stopCount' = [stopCount EXCEPT ![p] = @ + 1]
        /\ recordAfterStop' = [recordAfterStop EXCEPT ![p] = cleared]
        /\ pc' = [pc EXCEPT ![p] = AfterStop(err[p])]
        /\ UNCHANGED <<err, stopRaised>>

\* an error of /bin/kill leaves stopWhisperServer (no catch block does this)
StopRaise(p) ==
    /\ stopRaised' = [stopRaised EXCEPT ![p] = TRUE]
    /\ stopCount' = [stopCount EXCEPT ![p] = @ + 1]
    /\ recordAfterStop' = [recordAfterStop EXCEPT ![p] = pidFile]
    /\ err' = [err EXCEPT ![p] = "stop"]
    /\ pc' = [pc EXCEPT ![p] = "thrown"]
    /\ UNCHANGED <<activeServerInfo, pidFile, stopLog>>

\* `await utils.exec("/bin/kill", ["-TERM", pid])` settles
StopTermResult(p) ==
    /\ pc[p] = "stop_term"
    /\ \E o \in KillOutcomes :
        /\ Possible(o, stopPid[p])
        /\ alive' = Signalled("TERM", o, stopPid[p])
        /\ IF o = "delivered"
           THEN /\ pc' = [pc EXCEPT ![p] = "stop_sleep"]
                /\ UNCHANGED <<err, stopLog, stopCount, stopRaised,
                               recordAfterStop, activeServerInfo, pidFile>>
           ELSE IF StopSwallows(o)
           THEN /\ pc' = [pc EXCEPT ![p] = "stop_kill"]
                /\ stopLog' = [stopLog EXCEPT ![p] =
                       Append(@ \o Warned(o, stopPid[p]), <<"KILL", stopPid[p]>>)]
                /\ UNCHANGED <<err, stopCount, stopRaised, recordAfterStop,
                               activeServerInfo, pidFile>>
           ELSE StopRaise(p)
    /\ UNCHANGED <<server, sessionReturned, stopPid, callFrame>>

\* `await sleep(200)` is over: the KILL is sent
StopSleepDone(p) ==
    /\ pc[p] = "stop_sleep"
    /\ pc' = [pc EXCEPT ![p] = "stop_kill"]
    /\ stopLog' = [stopLog EXCEPT ![p] = Append(@, <<"KILL", stopPid[p]>>)]
    /\ UNCHANGED <<server, err, sessionReturned, stopPid, stopCount, stopRaised,
                   recordAfterStop, activeServerInfo, pidFile, alive, callFrame>>

\* `await utils.exec("/bin/kill", ["-KILL", pid])` settles; the rest of
\* stopWhisperServer is synchronous
StopKillResult(p) ==
    /\ pc[p] = "stop_kill"
    /\ \E o \in KillOutcomes :
        /\ Possible(o, stopPid[p])
        /\ alive' = Signalled("KILL", o, stopPid[p])
        /\ IF o = "delivered" \/ StopSwallows(o)
           THEN StopFinish(p, o)
           ELSE StopRaise(p)
    /\ UNCHANGED <<server, sessionReturned, stopPid, callFrame>>

(* ------------------- transcribe, local-server path -------------------- *)
\* the teardown at the end of the try block instead of in a finally block
LeaveTry_NoFinally(p, e) ==
    IF e = "none" THEN StopEnter(p, e)
    ELSE /\ pc' = [pc EXCEPT ![p] = "thrown"]
         /\ err' = [err EXCEPT ![p] = e]
         /\ UNCHANGED <<stopPid, stopLog, stopCount, stopRaised, recordAfterStop,
                        activeServerInfo, pidFile, alive>>

\* what transcribeWithWhisperServer does when the try block is left: the
\* finally block runs stopWhisperServer(server) on every way out
LeaveTry(p, e) == StopEnter(p, e)

\* transcribe(model) up to startWhisperServer: the model download and the
\* ffmpeg run may throw
Transcribe(p) ==
    /\ pc[p] = "idle"
    /\ \E prepared \in BOOLEAN :
        IF prepared
        THEN pc' = [pc EXCEPT ![p] = "start"] /\ UNCHANGED err
        ELSE pc' = [pc EXCEPT ![p] = "thrown"] /\ err' = [err EXCEPT ![p] = "prepare"]
    /\ UNCHANGED <<server, sessionReturned, stopPid, stopLog, stopCount, stopRaised,
                   recordAfterStop, activeServerInfo, pidFile, alive, callFrame>>

\* the shell command sent before the executable is looked for, the
\* missing executable reported afterwards
StartLaunch_SpawnFirst(p) ==
    /\ pc[p] = "start"
    /\ \E found \in BOOLEAN :
        /\ pc' = [pc EXCEPT ![p] = "spawning"]
        /\ err' = [err EXCEPT ![p] = IF found THEN @ ELSE "config"]
    /\ UNCHANGED <<server, sessionReturned, stopPid, stopLog, stopCount, stopRaised,
                   recordAfterStop, activeServerInfo, pidFile, alive, callFrame>>

\* startWhisperServer up to `await execWrapped("/bin/sh", ...)`:
\* getWhisperServerPath throws when the executable is not found
StartLaunch(p) ==
    /\ pc[p] = "start"
    /\ \E found \in BOOLEAN :
        IF found
        THEN pc' = [pc EXCEPT ![p] = "spawning"] /\ UNCHANGED err
        ELSE pc' = [pc EXCEPT ![p] = "thrown"] /\ err' = [err EXCEPT ![p] = "config"]
    /\ UNCHANGED <<server, sessionReturned, stopPid, stopLog, stopCount, stopRaised,
                   recordAfterStop, activeServerInfo, pidFile, alive, callFrame>>

\* the shell has run: no numeric pid (an error), or the backend runs with
\* pid; then activeServerInfo = serverInfo and rememberServerPid(pid);
\* waitForServerReady begins (pc probing)
Spawned(p, spawned, probing) ==
    /\ pc[p] = "spawning"
    /\ IF spawned
       THEN /\ server' = [server EXCEPT ![p] = PidOf(p)]
            /\ alive' = alive \cup {PidOf(p)}
            /\ activeServerInfo' = PidOf(p)
            /\ pidFile' = RememberServerPid(PidOf(p))
            /\ pc' = [pc EXCEPT ![p] = probing]
            /\ UNCHANGED err
       ELSE /\ pc' = [pc EXCEPT ![p] = "thrown"]
            /\ err' = [err EXCEPT ![p] = "startup"]
            /\ UNCHANGED <<server, alive, activeServerInfo, pidFile>>
    /\ UNCHANGED <<sessionReturned, stopPid, stopLog, stopCount, stopRaised,
                   recordAfterStop, recVars>>

SpawnResult(p) ==
    /\ \E spawned \in BOOLEAN : Spawned(p, spawned, "probing")
    /\ UNCHANGED <<rdyVars, flushVars, ioVars, extVars>>

\* waitForServerReady, one probe answered: 200 makes startWhisperServer
\* return serverInfo, and transcribeWithWhisperServer goes on to the
\* inference request; anything else is followed by sleep(300).
\* utils.resolvePath("@tmp/...") between the two (line 64) has resolved
\* "@tmp/" paths twice in this call by then (lines 55, 510) and is taken
\* to resolve this one
ProbeAnswer(p) ==
    /\ pc[p] = "probing"
    /\ \E status200 \in BOOLEAN :
        IF status200
        THEN /\ pc' = [pc EXCEPT ![p] = "inference"]
             /\ sessionReturned' = [sessionReturned EXCEPT ![p] = TRUE]
        ELSE /\ pc' = [pc EXCEPT ![p] = "probe_sleep"]
             /\ UNCHANGED sessionReturned
    /\ UNCHANGED <<server, err, stopPid, stopLog, stopCount, stopRaised,
                   recordAfterStop, activeServerInfo, pidFile, alive, callFrame>>

\* waitForServerReady after sleep(300): the next probe while Date.now() is
\* before the deadline; else the timeout error, caught by startWhisperServer,
\* which stops the backend and throws the error again
ProbeSleepDone(p) ==
    /\ pc[p] = "probe_sleep"
    /\ \E beforeDeadline \in BOOLEAN :
        IF beforeDeadline
        THEN /\ pc' = [pc EXCEPT ![p] = "probing"]
             /\ UNCHANGED <<err, stopPid, stopLog, stopCount, stopRaised,
                            recordAfterStop, activeServerInfo, pidFile, alive>>
        ELSE StopEnter(p, "timeout")
    /\ UNCHANGED <<server, sessionReturned, callFrame>>

(* --------------- waitForServerReady with its clock -------------------- *)
\* timeoutMs, the default of waitForServerReady's second parameter
TimeoutMs == 20000
\* sleep(300) between two probes
ProbeIntervalMs == 300
\* how late a probe's answer or a timer can be, in ms (a bound)
MaxDelay == 100
Delays == {0, MaxDelay}

\* when the backend starts to answer 200 (TimeoutMs + MaxDelay + 1: never
\* within the calls looked at)
ReadyTimes == {0, 600, TimeoutMs - 300, TimeoutMs - 200, TimeoutMs - 100,
               TimeoutMs, TimeoutMs + 100, TimeoutMs + MaxDelay + 1}

\* a probe is still sent when the deadline is reached
BeforeDeadline_Inclusive(t, d) == t <= d

\* `while (Date.now() < deadline)`
BeforeDeadline(t, d) == t < d

\* what a probe sent at t reports: status 200, another status, or http.get
\* throws
Answers(t) == IF t >= readyAt THEN {"200"} ELSE {"status", "network"}

\* lastError after a failed probe: the latest error replaces the one before
NextLastError(old, new) == new

\* the backend is spawned at time 0 and waitForServerReady sets its
\* deadline and sends the first probe
TimedSpawnResult(p) ==
    /\ \E spawned \in BOOLEAN : Spawned(p, spawned, "t_probing")
    /\ deadline' = now + TimeoutMs
    /\ issuedAt' = now
    /\ UNCHANGED <<now, lastError, lastAnswer, okIssuedAt, readyAt, ideal, flushVars, ioVars, extVars>>

\* a probe is answered after d ms
TimedProbeAnswer(p) ==
    /\ pc[p] = "t_probing"
    /\ \E d \in Delays, a \in Answers(issuedAt) :
        /\ now' = now + d
        /\ ideal' = (ideal /\ d = 0)
        /\ IF a = "200"
           THEN /\ pc' = [pc EXCEPT ![p] = "inference"]
                /\ sessionReturned' = [sessionReturned EXCEPT ![p] = TRUE]
                /\ okIssuedAt' = issuedAt
                /\ UNCHANGED <<lastError, lastAnswer>>
           ELSE /\ pc' = [pc EXCEPT ![p] = "t_sleep"]
                /\ lastError' = NextLastError(lastError, a)
                /\ lastAnswer' = a
                /\ UNCHANGED <<sessionReturned, okIssuedAt>>
    /\ UNCHANGED <<server, err, stopPid, stopLog, stopCount, stopRaised,
                   recordAfterStop, activeServerInfo, pidFile, alive, recVars,
                   deadline, issuedAt, readyAt, flushVars, ioVars, extVars>>

\* sleep(300) is over after 300 + d ms: the loop test, then the next probe
\* or the timeout error, which startWhisperServer catches to stop the backend
TimedSleepDone(p) ==
    /\ pc[p] = "t_sleep"
    /\ \E d \in Delays :
        /\ now' = now + ProbeIntervalMs + d
        /\ ideal' = (ideal /\ d = 0)
        /\ IF BeforeDeadline(now', deadline)
           THEN /\ pc' = [pc EXCEPT ![p] = "t_probing"]
                /\ issuedAt' = now'
                /\ UNCHANGED <<err, stopPid, stopLog, stopCount, stopRaised,
                               recordAfterStop, activeServerInfo, pidFile, alive>>
           ELSE /\ StopEnter(p, "timeout")
                /\ UNCHANGED issuedAt
    /\ UNCHANGED <<server, sessionReturned, recVars, deadline, lastError,
                   lastAnswer, okIssuedAt, readyAt, flushVars, ioVars, extVars>>

\* streamTranscription: requestTranscriptionFromServer settles with the
\* final document or an error; monitor.finalize then waits for the log loop
InferenceResult(p) ==
    /\ pc[p] = "inference"
    /\ \E e \in {"none", "inference"} :
        /\ err' = [err EXCEPT ![p] = e]
        /\ pc' = [pc EXCEPT ![p] = "finalize"]
    /\ UNCHANGED <<server, sessionReturned, stopPid, stopLog, stopCount, stopRaised,
                   recordAfterStop, activeServerInfo, pidFile, alive, callFrame>>

\* monitor.finalize is over.  After an inference error streamTranscription
\* throws it; after finalize(finalSrt) either its file.write threw (caught,
\* finalize(null), thrown), or persistSubtitleCopy runs: with no archive
\* directory it returns at once, else it waits for mkdir and cp
FinalizeDone(p) ==
    /\ pc[p] = "finalize"
    /\ IF err[p] # "none"
       THEN LeaveTry(p, err[p])
       ELSE \E written \in BOOLEAN, archive \in BOOLEAN :
                IF ~written THEN LeaveTry(p, "finalize")
                ELSE IF ~archive THEN LeaveTry(p, "none")
                ELSE /\ pc' = [pc EXCEPT ![p] = "persist"]
                     /\ UNCHANGED <<err, stopPid, stopLog, stopCount, stopRaised,
                                    recordAfterStop, activeServerInfo, pidFile, alive>>
    /\ UNCHANGED <<server, sessionReturned, callFrame>>

\* persistSubtitleCopy is over: a failed mkdir or cp is logged, not thrown
PersistDone(p) ==
    /\ pc[p] = "persist"
    /\ LeaveTry(p, "none")
    /\ UNCHANGED <<server, sessionReturned, callFrame>>

\* a further teardown of the session of call p after the call has ended
SecondTeardown(p) ==
    /\ pc[p] \in {"returned", "thrown"}
    /\ server[p] # NoPid
    /\ stopCount[p] < MaxTeardowns
    /\ StopEnter(p, err[p])
    /\ UNCHANGED <<server, sessionReturned, callFrame>>

\* a backend process ends by itself (after TERM, a failed bind, a crash)
BackendExits(pid) ==
    /\ pid \in alive
    /\ alive' = alive \ {pid}
    /\ UNCHANGED <<pc, server, err, sessionReturned, stopPid, stopLog, stopCount,
                   stopRaised, recordAfterStop, activeServerInfo, pidFile, callFrame>>

(* ------------------- orphan recovery (global entry) ------------------- *)
\* sendSignal rethrows every error but "No such process"
SendSignalRethrows(o) == o = "failed"

\* safeDelete(pidPath)
SafeDelete(f) == Absent

\* killRecordedWhisperServer up to its first await
RecoverBegin(r) ==
    /\ rpc[r] = "r_idle"
    /\ IF pidFile = Absent
       THEN /\ rpc' = [rpc EXCEPT ![r] = "r_done"]
            /\ rEndRecord' = [rEndRecord EXCEPT ![r] = pidFile]
            /\ UNCHANGED <<pidFile, rpid, rLog>>
       ELSE IF ReadRecordedServerPid(pidFile) = NoPid
       THEN /\ pidFile' = SafeDelete(pidFile)
            /\ rpc' = [rpc EXCEPT ![r] = "r_done"]
            /\ rEndRecord' = [rEndRecord EXCEPT ![r] = pidFile']
            /\ UNCHANGED <<rpid, rLog>>
       ELSE /\ rpid' = [rpid EXCEPT ![r] = pidFile]
            /\ rLog' = [rLog EXCEPT ![r] = << <<"TERM", pidFile>> >>]
            /\ rpc' = [rpc EXCEPT ![r] = "r_term"]
            /\ UNCHANGED <<pidFile, rEndRecord>>
    /\ UNCHANGED <<pc, server, err, sessionReturned, stopPid, stopLog, stopCount,
                   stopRaised, recordAfterStop, activeServerInfo, alive, recFrame>>

\* `await sendSignal(pid, "-TERM")` settles
RecoverTermResult(r) ==
    /\ rpc[r] = "r_term"
    /\ \E o \in KillOutcomes :
        /\ Possible(o, rpid[r])
        /\ alive' = Signalled("TERM", o, rpid[r])
        /\ IF SendSignalRethrows(o)
           THEN /\ rpc' = [rpc EXCEPT ![r] = "r_rejected"]
                /\ rEndRecord' = [rEndRecord EXCEPT ![r] = pidFile]
           ELSE /\ rpc' = [rpc EXCEPT ![r] = "r_delay"]
                /\ UNCHANGED rEndRecord
    /\ UNCHANGED <<pc, server, err, sessionReturned, stopPid, stopLog, stopCount,
                   stopRaised, recordAfterStop, activeServerInfo, pidFile, rpid, rLog,
                   recFrame>>

\* `await delay(200)` is over: the KILL is sent
RecoverDelayDone(r) ==
    /\ rpc[r] = "r_delay"
    /\ rpc' = [rpc EXCEPT ![r] = "r_kill"]
    /\ rLog' = [rLog EXCEPT ![r] = Append(@, <<"KILL", rpid[r]>>)]
    /\ UNCHANGED <<srvVars, rpid, rEndRecord, recFrame>>

\* `await sendSignal(pid, "-KILL")` settles, then safeDelete(pidPath)
RecoverKillResult(r) ==
    /\ rpc[r] = "r_kill"
    /\ \E o \in KillOutcomes :
        /\ Possible(o, rpid[r])
        /\ alive' = Signalled("KILL", o, rpid[r])
        /\ IF SendSignalRethrows(o)
           THEN /\ rpc' = [rpc EXCEPT ![r] = "r_rejected"]
                /\ UNCHANGED pidFile
           ELSE /\ rpc' = [rpc EXCEPT ![r] = "r_done"]
                /\ pidFile' = SafeDelete(pidFile)
        /\ rEndRecord' = [rEndRecord EXCEPT ![r] = pidFile']
    /\ UNCHANGED <<pc, server, err, sessionReturned, stopPid, stopLog, stopCount,
                   stopRaised, recordAfterStop, activeServerInfo, rpid, rLog, recFrame>>

(* ------------- OpenAI streaming: handler and write chain -------------- *)
\* chunk callbacks of one streaming request (a bound)
MaxChunks == 2

\* what one complete `data:` line can be: a segment event with text, a final
\* transcript with segments or text, a text delta, or a line that changes
\* nothing (comment, [DONE], bad JSON, error event, blank segment)
EventKinds == {"segment", "final", "delta", "other"}

\* the latest two entries of a log of operations
LastTwo(log) == IF Len(log) <= 2 THEN log ELSE SubSeq(log, Len(log) - 1, Len(log))

\* loadTrack is asked for even when file.write has thrown
Reloaded_Always(written) == TRUE

\* `file.write(subtitlePath, ...); await reloadSubtitleTrack(subtitlePath)`:
\* an error of file.write skips the call of reloadSubtitleTrack
Reloaded(written) == written

\* one update of the subtitle file: file.write with the whole document doc,
\* then core.subtitle.loadTrack, both before the caller's next await
WriteThrough(written, doc) ==
    /\ subtitleFile' = IF written THEN doc ELSE subtitleFile
    /\ ioLog' = LastTwo(ioLog
                   \o (IF written THEN << <<"write", doc>> >> ELSE <<>>)
                   \o (IF Reloaded(written)
                       THEN << <<"reload", IF written THEN doc ELSE subtitleFile>> >>
                       ELSE <<>>))

\* scheduleFlush calls made for one event: upsertSegment schedules one and
\* handleEvent another for a segment event; the final transcript and
\* setTextOnly schedule one
FlushesFor(kind) ==
    CASE kind = "segment" -> 2
      [] kind \in {"final", "delta"} -> 1
      [] OTHER -> 0

\* the write-through is started from a promise of its own
ChainPred_Unchained(tail) == 0

\* scheduleFlush: `writeChain = writeChain.then(...)`: the new write-through
\* waits for the promise writeChain held
ChainPred(tail) == tail

\* k calls of scheduleFlush, one after the other
RECURSIVE Scheduled(_, _)
Scheduled(ts, k) ==
    IF k = 0 THEN ts
    ELSE Scheduled(Append(ts, [st |-> "pending", pred |-> ChainPred(Len(ts)),
                                 outcome |-> "none"]), k - 1)

\* handleEvent for one line of the given kind
Handled(kind) ==
    /\ tasks' = Scheduled(tasks, FlushesFor(kind))
    /\ writeChain' = Len(tasks')
    /\ docVer' = IF FlushesFor(kind) > 0 THEN docVer + 1 ELSE docVer

\* the promise of write-through t has settled; 0 is the resolved promise the
\* chain starts from
Settled(t) == IF t = 0 THEN TRUE ELSE tasks[t].st = "done"

\* waitForFlush returns without waiting for the chain
FlushSettled_NoAwait(t) == TRUE

\* `await writeChain` in waitForFlush: the awaited promise has settled
FlushSettled(t) == Settled(t)

\* the finally block of transcribeWithOpenAI: waitForFlush is called again
\* and reads writeChain; e is what the call throws afterwards
EnterFinally(e, chain) ==
    /\ oerr' = e
    /\ waitTail' = chain
    /\ opc' = "finally_wait"

\* transcribeWithOpenAI up to utils.exec: prepareAudioForOpenAI may throw
\* (before the try block); with no API key executeOpenAIStreamingRequest
\* throws inside it
OpenAIStart ==
    /\ opc = "prepare"
    /\ \E o \in {"ok", "prepare", "nokey"} :
        CASE o = "ok" -> opc' = "exec" /\ UNCHANGED <<oerr, waitTail, writeChain>>
          [] o = "prepare" -> opc' = "thrown" /\ oerr' = o /\ UNCHANGED <<waitTail, writeChain>>
          [] o = "nokey" -> EnterFinally(o, writeChain) /\ UNCHANGED writeChain
    /\ UNCHANGED <<tasks, chunks, docVer, fileVer, srvVars, recVars, rdyVars, ioVars, extVars>>

\* handleChunk: a chunk that completes one line
HandleChunk ==
    /\ opc = "exec"
    /\ chunks < MaxChunks
    /\ chunks' = chunks + 1
    /\ \E kind \in EventKinds : Handled(kind)
    /\ UNCHANGED <<opc, oerr, waitTail, fileVer, srvVars, recVars, rdyVars, ioVars, extVars>>

\* utils.exec settles: it throws, or handler.finalize() handles what is
\* left in the buffer and the status decides
ExecDone ==
    /\ opc = "exec"
    /\ \E res \in {"status0", "failed", "throws"} :
        IF res = "throws"
        THEN /\ UNCHANGED <<tasks, writeChain, docVer>>
             /\ EnterFinally("exec", writeChain)
        ELSE /\ \E kind \in EventKinds : Handled(kind)
             /\ IF res = "failed"
                THEN EnterFinally("status", writeChain')
                ELSE /\ waitTail' = writeChain'
                     /\ opc' = "wait"
                     /\ UNCHANGED oerr
    /\ UNCHANGED <<chunks, fileVer, srvVars, recVars, rdyVars, ioVars, extVars>>

\* `await streamHandler.waitForFlush()` in the try block is over;
\* persistSubtitleCopy returns at once without an archive directory
WaitFlushDone ==
    /\ opc = "wait"
    /\ FlushSettled(waitTail)
    /\ \E archive \in BOOLEAN :
        IF archive
        THEN opc' = "persist" /\ UNCHANGED <<oerr, waitTail>>
        ELSE EnterFinally("none", writeChain)
    /\ UNCHANGED <<tasks, writeChain, chunks, docVer, fileVer, srvVars, recVars, rdyVars, ioVars, extVars>>

\* persistSubtitleCopy is over (its errors are logged)
OpenAIPersistDone ==
    /\ opc = "persist"
    /\ EnterFinally("none", writeChain)
    /\ UNCHANGED <<tasks, writeChain, chunks, docVer, fileVer, srvVars, recVars, rdyVars, ioVars, extVars>>

\* the waitForFlush of the finally block is over: the call returns or throws
FinallyWaitDone ==
    /\ opc = "finally_wait"
    /\ FlushSettled(waitTail)
    /\ opc' = AfterStop(oerr)
    /\ UNCHANGED <<oerr, tasks, writeChain, waitTail, chunks, docVer, fileVer,
                   srvVars, recVars, rdyVars, ioVars, extVars>>

\* a write-through starts once the promise it was chained to has settled:
\* writeRawDump, render, file.write (an error leaves the file as it was and
\* is logged by the catch handler), loadTrack; its promise is still pending
FlushBegin(i) ==
    /\ i \in 1..Len(tasks)
    /\ tasks[i].st = "pending"
    /\ Settled(tasks[i].pred)
    /\ \E written \in BOOLEAN :
        /\ tasks' = [tasks EXCEPT ![i].st = "running",
                                  ![i].outcome = IF written THEN "written" ELSE "failed"]
        /\ fileVer' = IF written THEN docVer ELSE fileVer
        /\ WriteThrough(written, <<"openai", docVer>>)
    /\ UNCHANGED <<opc, oerr, writeChain, waitTail, chunks, docVer,
                   srvVars, recVars, rdyVars, extVars>>

\* a chain without the catch handler: a failed write-through rejects
CatchSettles_NoCatch(outcome) == IF outcome = "failed" THEN "rejected" ELSE "done"

\* `.catch(error => console.warn(...))`: the promise scheduleFlush stores
\* resolves whether the write-through succeeded or threw
CatchSettles(outcome) == "done"

\* the promise of a write-through settles
FlushEnd(i) ==
    /\ i \in 1..Len(tasks)
    /\ tasks[i].st = "running"
    /\ tasks' = [tasks EXCEPT ![i].st = CatchSettles(tasks[i].outcome)]
    /\ UNCHANGED <<opc, oerr, writeChain, waitTail, chunks, docVer, fileVer,
                   srvVars, recVars, rdyVars, ioVars, extVars>>

\* most write-throughs one request can schedule
MaxTasks == 2 * (MaxChunks + 1)

NextFlush ==
    \/ OpenAIStart
    \/ HandleChunk
    \/ ExecDone
    \/ WaitFlushDone
    \/ OpenAIPersistDone
    \/ FinallyWaitDone
    \/ \E i \in 1..MaxTasks : FlushBegin(i)
    \/ \E i \in 1..MaxTasks : FlushEnd(i)

(* ------------- log polling (startLogMonitor, whisper.cpp) ------------- *)
\* polls of the backend log that find new segment lines
MaxPolls == 3

\* requestTranscriptionFromServer: the SRT document on stdout, an empty
\* stdout, or an error of curl
InferenceOutcomes == {"doc", "empty", "error"}

\* a loop that never looks at stopRequested
LoopContinues_Always(stop) == TRUE

\* `while (!stopRequested)`
LoopContinues(stop) == ~stop

\* one pass of the loop body up to its first await: collectNewSegments
\* (false, or an error caught below, when nothing new can be read), then
\* render, file.write and reloadSubtitleTrack; an error of file.write is
\* caught and followed by the sleep
LoopIteration ==
    \E updated \in BOOLEAN :
        IF updated
        THEN /\ logSegs < MaxPolls
             /\ logSegs' = logSegs + 1
             /\ \E written \in BOOLEAN :
                    /\ WriteThrough(written, <<"log", logSegs + 1>>)
                    /\ lpc' = IF written THEN "reloading" ELSE "sleeping"
        ELSE /\ lpc' = "sleeping"
             /\ UNCHANGED <<logSegs, ioVars>>

\* the promise finalize awaits is settled without the loop having ended
LoopAwaited_NoWait(l) == TRUE

\* `await loopPromise` in finalize: the async loop function has returned
LoopAwaited(l) == l = "done"

\* streamTranscription: startLogMonitor runs the first pass of the loop
\* before it returns, then the inference request is sent
LogStart ==
    /\ mpc = "idle"
    /\ LoopIteration
    /\ mpc' = "request"
    /\ UNCHANGED <<merr, stopRequested, finalSrt, finalWritten,
                   logFrame>>

\* `await reloadSubtitleTrack(subtitlePath)` in the loop is over
LoopReloadDone ==
    /\ lpc = "reloading"
    /\ lpc' = "sleeping"
    /\ UNCHANGED <<mpc, merr, stopRequested, finalSrt, logSegs, finalWritten,
                   ioVars, logFrame>>

\* `await sleep(LOG_POLL_INTERVAL_MS)` is over: the loop condition, then
\* the next pass or the end of the loop
LoopSleepDone ==
    /\ lpc = "sleeping"
    /\ IF LoopContinues(stopRequested)
       THEN LoopIteration
       ELSE lpc' = "done" /\ UNCHANGED <<logSegs, ioVars>>
    /\ UNCHANGED <<mpc, merr, stopRequested, finalSrt, finalWritten,
                   logFrame>>

\* the inference request settles and monitor.finalize is called, with the
\* document or (from the catch block) with null: stopRequested is set and
\* loopPromise awaited
InferenceDone ==
    /\ mpc = "request"
    /\ \E o \in InferenceOutcomes :
        /\ finalSrt' = o
        /\ merr' = IF o = "error" THEN "inference" ELSE "none"
    /\ stopRequested' = TRUE
    /\ mpc' = "await_loop"
    /\ UNCHANGED <<lpc, logSegs, finalWritten, ioVars,
                   logFrame>>

\* finalize after `await loopPromise`: a non-empty document is written and
\* the track reloaded; an error of file.write rejects finalize, and the
\* catch block of streamTranscription calls finalize(null); without a
\* document streamTranscription returns or throws transcriptionError
FinalizeResume ==
    /\ mpc = "await_loop"
    /\ LoopAwaited(lpc)
    /\ IF finalSrt = "doc" /\ merr = "none"
       THEN \E written \in BOOLEAN :
               /\ WriteThrough(written, <<"final">>)
               /\ finalWritten' = written
               /\ mpc' = IF written THEN "final_reload" ELSE "await_loop"
               /\ merr' = IF written THEN merr ELSE "write"
       ELSE /\ mpc' = AfterStop(merr)
            /\ UNCHANGED <<merr, finalWritten, ioVars>>
    /\ UNCHANGED <<lpc, stopRequested, finalSrt, logSegs,
                   logFrame>>

\* `await reloadSubtitleTrack(subtitlePath)` in finalize is over
FinalReloadDone ==
    /\ mpc = "final_reload"
    /\ mpc' = "returned"
    /\ UNCHANGED <<lpc, merr, stopRequested, finalSrt, logSegs, finalWritten,
                   ioVars, logFrame>>

NextLog ==
    \/ LogStart
    \/ LoopReloadDone
    \/ LoopSleepDone
    \/ InferenceDone
    \/ FinalizeResume
    \/ FinalReloadDone

(* ------------- event-stream collection (createOpenAIStreamHandler) ---- *)
\* text is a sequence of characters
IsSpace(c) == c \in {" ", "\n"}

RECURSIVE TrimStart(_)
TrimStart(t) == IF t # <<>> /\ IsSpace(Head(t)) THEN TrimStart(Tail(t)) ELSE t

RECURSIVE TrimEnd(_)
TrimEnd(t) ==
    IF t # <<>> /\ IsSpace(t[Len(t)]) THEN TrimEnd(SubSeq(t, 1, Len(t) - 1)) ELSE t

\* String.prototype.trim
Trim(t) == TrimEnd(TrimStart(t))

\* text.split(/\r?\n/): the pieces between the line breaks
RECURSIVE SplitAtBreaks(_, _)
SplitAtBreaks(t, piece) ==
    IF t = <<>> THEN <<piece>>
    ELSE IF Head(t) = "\n" THEN <<piece>> \o SplitAtBreaks(Tail(t), <<>>)
    ELSE SplitAtBreaks(Tail(t), Append(piece, Head(t)))

\* splitTextIntoLines: split, trim every piece, drop the empty ones
SplitTextIntoLines(t) ==
    IF t = <<>> THEN <<>>
    ELSE LET pieces == SplitAtBreaks(t, <<>>)
             trimmed == [i \in 1..Len(pieces) |-> Trim(pieces[i])]
         IN  SelectSeq(trimmed, LAMBDA l : l # <<>>)

\* textLines.join(" ")
RECURSIVE JoinLines(_)
JoinLines(ls) ==
    IF ls = <<>> THEN <<>>
    ELSE IF Len(ls) = 1 THEN ls[1]
    ELSE ls[1] \o <<" ">> \o JoinLines(Tail(ls))

\* a field that is undefined: `end` of a raw segment
NoEnd == -1

\* secondsToMs of a number of seconds
SecondsToMs(v) == IF v < 0 THEN 0 ELSE v * 1000

\* core.status.duration of the file being transcribed, in ms: the end of
\* the synthesized text-only segment
MediaDurationMs == 60000

\* normalizeOpenAISegment returns null
NoSegment == [id |-> <<"null">>, startMs |-> 0, endMs |-> 0, textLines |-> <<>>]

\* normalizeOpenAISegment: null for a text that is blank; times in ms; the
\* id of the segment, or for a falsy id `${startMs}-${endMs}-${text.length}`
NormalizeOpenAISegment(raw) ==
    LET text == Trim(raw.text)
        startMs == SecondsToMs(raw.start)
        endMs == SecondsToMs(IF raw.end = NoEnd THEN startMs + 2 ELSE raw.end)
    IN  IF text = <<>> THEN NoSegment
        ELSE [id |-> IF raw.id # 0 THEN <<"id", raw.id>>
                     ELSE <<"syn", startMs, endMs, Len(text)>>,
              startMs |-> startMs,
              endMs |-> endMs,
              textLines |-> SplitTextIntoLines(text)]

\* new Map(): no id
EmptyMap == [x \in {} |-> 0]

\* segmentMap.set(id, index)
MapSet(m, id, index) ==
    [x \in DOMAIN m \cup {id} |-> IF x = id THEN index ELSE m[x]]

\* Array.prototype.sort keeps the order of elements that compare equal:
\* x goes behind every element that does not start later
RECURSIVE InsertByStart(_, _)
InsertByStart(sorted, x) ==
    IF sorted = <<>> THEN <<x>>
    ELSE IF Head(sorted).startMs <= x.startMs
    THEN <<Head(sorted)>> \o InsertByStart(Tail(sorted), x)
    ELSE <<x>> \o sorted

RECURSIVE SortByStart(_)
SortByStart(segs) ==
    IF segs = <<>> THEN <<>>
    ELSE InsertByStart(SortByStart(SubSeq(segs, 1, Len(segs) - 1)), segs[Len(segs)])

\* the pushed segment stays where push put it
SortSegments_NotSorted(segs) == segs

\* segments.sort((a, b) => a.startMs - b.startMs)
SortSegments(segs) == SortByStart(segs)

\* segments.forEach((segment, index) => segmentMap.set(segment.id, index)),
\* after segmentMap.set(id, ...) for the new id; positions count from 1 here
\* the positions in the map left as they were before the sort
Reindexed_NotReindexed(m, segs, i) == m

RECURSIVE Reindexed(_, _, _)
Reindexed(m, segs, i) ==
    IF i > Len(segs) THEN m
    ELSE Reindexed(MapSet(m, segs[i].id, i), segs, i + 1)

\* the state of one stream handler: the collection, its id-to-position
\* map, the number of scheduleFlush calls made, and whether an exception
\* has left handleChunk
NewHandler == [segments |-> <<>>, segmentMap |-> EmptyMap, flushes |-> 0, broken |-> FALSE]

\* scheduleFlush()
ScheduleFlush(h) == [h EXCEPT !.flushes = @ + 1]

\* upsertSegment: what it leaves and what it returns
UpsertSegment(h, raw, skipFlush) ==
    LET normalized == NormalizeOpenAISegment(raw)
        known == normalized.id \in DOMAIN h.segmentMap
        pushed == Append(h.segments, normalized)
        sorted == SortSegments(pushed)
        stored ==
            IF known
            THEN [h EXCEPT !.segments[h.segmentMap[normalized.id]] = normalized]
            ELSE [h EXCEPT
                    !.segments = sorted,
                    !.segmentMap =
                        Reindexed(MapSet(h.segmentMap, normalized.id, Len(pushed)),
                                  sorted, 1)]
    IN  IF normalized = NoSegment
        THEN [h |-> h, ok |-> FALSE]
        ELSE [h |-> IF skipFlush THEN stored ELSE ScheduleFlush(stored), ok |-> TRUE]

\* event.segments.forEach(segment => upsertSegment(segment, {skipFlush: true}))
RECURSIVE UpsertAll(_, _)
UpsertAll(h, raws) ==
    IF raws = <<>> THEN h
    ELSE UpsertAll(UpsertSegment(h, Head(raws), TRUE).h, Tail(raws))

\* setTextOnly: one synthesized segment takes the place of the collection
SetTextOnly(h, text, append) ==
    LET content ==
            IF append /\ h.segments # <<>>
            THEN Trim(JoinLines(h.segments[Len(h.segments)].textLines)
                      \o <<" ">> \o text)
            ELSE Trim(text)
        synthesized == [id |-> <<"text-only">>,
                        startMs |-> 0,
                        endMs |-> MediaDurationMs,
                        textLines |-> SplitTextIntoLines(content)]
    IN  IF content = <<>> THEN h
        ELSE ScheduleFlush([h EXCEPT
                 !.segments = <<synthesized>>,
                 !.segmentMap = MapSet(EmptyMap, <<"text-only">>, 1)])

\* every array resets the collection, the empty one too
HasFinalSegments_AnyArray(segs) == TRUE

\* `Array.isArray(event.segments) && event.segments.length > 0`
HasFinalSegments(segs) == Len(segs) > 0

\* the interim segments kept when a final transcript arrives
ClearCollection_Kept(h) == h

\* `segments.length = 0; segmentMap.clear()`
ClearCollection(h) == [h EXCEPT !.segments = <<>>, !.segmentMap = EmptyMap]

\* handleEvent
HandleEvent(h, event) ==
    CASE event.type = "transcript.text.segment" ->
            LET u == UpsertSegment(h, event.segment, FALSE)
            IN  IF u.ok THEN ScheduleFlush(u.h) ELSE u.h
      [] event.type = "transcript.text.done" ->
            IF HasFinalSegments(event.segments)
            THEN ScheduleFlush(UpsertAll(ClearCollection(h), event.segments))
            ELSE IF event.hasText THEN SetTextOnly(h, event.text, FALSE)
            ELSE h
      [] event.type = "transcript.text.delta" -> SetTextOnly(h, event.text, TRUE)
      [] OTHER -> h

\* JSON.parse throws out of processLine
CaughtParseError_No == FALSE

\* the try/catch around JSON.parse in processLine: logged, `return`
CaughtParseError == TRUE

\* processLine: comments and lines that are no data lines are skipped, and
\* so are an empty payload and the payload [DONE]; a payload that is no
\* JSON is logged; everything else goes to handleEvent
ProcessLine(h, line) ==
    CASE line.kind \in {"comment", "marker"} -> h
      [] line.kind = "malformed" ->
            IF CaughtParseError THEN h ELSE [h EXCEPT !.broken = TRUE]
      [] OTHER -> HandleEvent(h, line.event)

\* processBuffer: the complete lines of the buffer, one after the other
RECURSIVE ProcessBuffer(_, _)
ProcessBuffer(h, lines) ==
    IF lines = <<>> \/ h.broken THEN h
    ELSE ProcessBuffer(ProcessLine(h, Head(lines)), Tail(lines))

\* lines of one response stream
MaxLines == 3

\* the `segment` objects the backend sends: start, end in seconds; an id of
\* 0 is falsy; a blank text; an `end` that is missing
RawSegments ==
    { [id |-> 2, start |-> 1, end |-> 2, text |-> <<"b">>],
      [id |-> 1, start |-> 0, end |-> 1, text |-> <<"a">>],
      [id |-> 1, start |-> 2, end |-> 3, text |-> <<"a", "a">>],
      [id |-> 3, start |-> 0, end |-> 1, text |-> <<" ">>],
      [id |-> 0, start |-> 1, end |-> NoEnd, text |-> <<" ", "c">>] }

\* an event without a `segment` field
RawNone == [id |-> 0, start |-> 0, end |-> NoEnd, text |-> <<>>]

Event(type, segment, segs, hasText, text) ==
    [type |-> type, segment |-> segment, segments |-> segs,
     hasText |-> hasText, text |-> text]

SegmentEvents ==
    {Event("transcript.text.segment", raw, <<>>, FALSE, <<>>) : raw \in RawSegments}

\* final transcripts: an empty array and no text; two segments, the later
\* one first; a text of two lines
DoneEvents ==
    { Event("transcript.text.done", RawNone, <<>>, FALSE, <<>>),
      Event("transcript.text.done", RawNone,
            << [id |-> 1, start |-> 2, end |-> 3, text |-> <<"a">>],
               [id |-> 2, start |-> 1, end |-> 2, text |-> <<"b">>] >>,
            FALSE, <<>>),
      Event("transcript.text.done", RawNone, <<>>, TRUE, <<"t", "\n", "u">>) }

DeltaEvents ==
    {Event("transcript.text.delta", RawNone, <<>>, TRUE, d) : d \in {<<"H">>, <<"i">>}}

ErrorEvents == {Event("response.error", RawNone, <<>>, FALSE, <<>>)}

Events == SegmentEvents \cup DoneEvents \cup DeltaEvents \cup ErrorEvents

\* the lines of the stream: `data: <json>`, `data: [DONE]`, a data line
\* whose payload is no JSON, a comment line
Lines ==
    {[kind |-> "event", event |-> e] : e \in Events}
    \cup {[kind |-> k, event |-> Event("none", RawNone, <<>>, FALSE, <<>>)] :
             k \in {"marker", "malformed", "comment"}}

\* the complete lines one chunk can bring
ChunkLines == {<<l>> : l \in Lines} \cup {<<l1, l2>> : l1, l2 \in Lines}

\* the handler as a record, and the handler after the lines
Handler ==
    [segments |-> segments, segmentMap |-> segmentMap,
     flushes |-> scheduledFlushes, broken |-> broken]

Process(lines) ==
    LET h == ProcessBuffer(Handler, lines)
    IN  /\ Len(processed) + Len(lines) <= MaxLines
        /\ segments' = h.segments
        /\ segmentMap' = h.segmentMap
        /\ scheduledFlushes' = h.flushes
        /\ broken' = h.broken
        /\ processed' = processed \o lines

\* handleChunk: the chunk is added to the buffer and processBuffer handles
\* the lines that are complete; utils.exec ends when the callback throws
StreamChunk ==
    /\ ~finalized /\ ~broken
    /\ \E lines \in ChunkLines : Process(lines)
    /\ UNCHANGED <<finalized, evFrame>>

\* handler.finalize(): processBuffer(true) handles what is left in the
\* buffer as a last line
StreamFinalize ==
    /\ ~finalized /\ ~broken
    /\ finalized' = TRUE
    /\ \E lines \in {<<>>} \cup {<<l>> : l \in Lines} : Process(lines)
    /\ UNCHANGED evFrame

\* the lines of a stream of segments that ends with final transcripts
ReplaceLines ==
    {[kind |-> "event", event |-> e] : e \in SegmentEvents \cup DoneEvents}

\* handleChunk with one or two such lines
ReplaceChunk ==
    /\ ~finalized /\ ~broken
    /\ \E lines \in {<<l>> : l \in ReplaceLines}
                     \cup {<<l1, l2>> : l1, l2 \in ReplaceLines} : Process(lines)
    /\ UNCHANGED <<finalized, evFrame>>

\* the next write-through of the write chain runs: the collection as it is
\* now is rendered, written (an error of file.write is logged) and loaded
WriteThroughRun ==
    /\ flushesRun < scheduledFlushes
    /\ flushesRun' = flushesRun + 1
    /\ \E written \in BOOLEAN : WriteThrough(written, <<"openai", segments>>)
    /\ UNCHANGED <<baseVars0, evVars, prVars, ckVars, tsVars, srtVars, lgVars, spVars,
             plVars, nzVars>>

NextReplace ==
    \/ ReplaceChunk
    \/ WriteThroughRun

NextEvents ==
    \/ StreamChunk
    \/ StreamFinalize

(* ------ non-streaming remote request (src/src/transcribe.js) ---------- *)
\* a response body: whether JSON.parse accepts it, and then its fields
\* `segments` (no array, an empty array, an array of segments with blank
\* text, an array with text), `text` (falsy, blank, with text) and `error`;
\* whether the raw body contains "-->", starts with WEBVTT, is empty
JsonBodies ==
    [json : {TRUE}, segments : {"absent", "empty", "blank", "some"},
     text : {"absent", "blank", "some"}, error : BOOLEAN,
     arrow : BOOLEAN, webvtt : {FALSE}, empty : {FALSE}]

TextBodies ==
    [json : {FALSE}, segments : {"absent"}, text : {"absent"}, error : {FALSE},
     arrow : BOOLEAN, webvtt : BOOLEAN, empty : {FALSE}]
    \cup [json : {FALSE}, segments : {"absent"}, text : {"absent"}, error : {FALSE},
          arrow : {FALSE}, webvtt : {FALSE}, empty : {TRUE}]

Bodies == JsonBodies \cup TextBodies

\* the catch block around JSON.parse and the branches on the parsed value:
\* a body that looks like SRT or VTT, or any other non-empty body, becomes
\* the subtitle content
RecoveredContent(body) ==
    IF body.webvtt \/ body.arrow THEN "body"
    ELSE IF ~body.empty THEN "body"
    ELSE "none"

\* srtContent: "rendered" from segments or text, the raw "body", or "none"
\* for the empty string; `throw new Error(json.error.message ...)` is inside
\* the try block whose catch recovers
SrtContent(body) ==
    IF ~body.json THEN RecoveredContent(body)
    ELSE IF body.segments # "absent"
    THEN (IF body.segments = "some" THEN "rendered" ELSE "none")
    ELSE IF body.text # "absent"
    THEN (IF body.text = "some" THEN "rendered" ELSE "none")
    ELSE IF body.error THEN RecoveredContent(body)
    ELSE "none"

\* transcribeWithOpenAI up to the request: prepareAudioForOpenAI may throw
\* (it is not defined in this file; the streaming variant defines it), and
\* executeOpenAIRequest throws without an API key
NonStreamStart ==
    /\ npc = "idle"
    /\ \E o \in {"ok", "prepare", "nokey"} :
        IF o = "ok" THEN npc' = "request" /\ UNCHANGED nerr
        ELSE npc' = "thrown" /\ nerr' = o
    /\ UNCHANGED <<responseBody, writtenSrt, nsFrame>>

\* curl has ended: a status other than 0 is thrown by execWrapped; else the
\* body is saved raw, turned into srtContent and, unless that is empty,
\* written to the subtitle file before persistSubtitleCopy is awaited
NonStreamResponse ==
    /\ npc = "request"
    /\ \E status0 \in BOOLEAN, rawSaved \in BOOLEAN, written \in BOOLEAN :
        CASE ~status0 ->
                npc' = "thrown" /\ nerr' = "status" /\ UNCHANGED writtenSrt
          [] status0 /\ ~rawSaved ->
                npc' = "thrown" /\ nerr' = "write" /\ UNCHANGED writtenSrt
          [] status0 /\ rawSaved /\ SrtContent(responseBody) = "none" ->
                npc' = "thrown" /\ nerr' = "nocontent" /\ UNCHANGED writtenSrt
          [] status0 /\ rawSaved /\ SrtContent(responseBody) # "none" /\ written ->
                /\ npc' = "persist"
                /\ writtenSrt' = SrtContent(responseBody)
                /\ UNCHANGED nerr
          [] OTHER ->
                npc' = "thrown" /\ nerr' = "write" /\ UNCHANGED writtenSrt
    /\ UNCHANGED <<responseBody, nsFrame>>

\* persistSubtitleCopy is over (its errors are logged): subtitlePath is
\* returned
NonStreamPersistDone ==
    /\ npc = "persist"
    /\ npc' = "returned"
    /\ UNCHANGED <<nerr, responseBody, writtenSrt, nsFrame>>

NextNonStream ==
    \/ NonStreamStart
    \/ NonStreamResponse
    \/ NonStreamPersistDone

(* ------------- audio preparation for the remote backend --------------- *)
\* OPENAI_SIZE_LIMIT_BYTES
SizeLimitBytes == 25 * 1024 * 1024

\* sizes around the limit; statFileSize gives 0 when stat prints no number
FileSizes == {0, SizeLimitBytes - 1, SizeLimitBytes, SizeLimitBytes + 1,
              2 * SizeLimitBytes, 40 * SizeLimitBytes}

\* `currentSize <= OPENAI_SIZE_LIMIT_BYTES`: the WAV file is sent as it is
FitsLimit(size) == size <= SizeLimitBytes

\* transcribe in remote mode up to the first stat: the url check and the
\* ffmpeg run that makes the WAV file may throw
PrepareBegin ==
    /\ qpc = "idle"
    /\ \E ok \in BOOLEAN :
        IF ok THEN qpc' = "stat" /\ UNCHANGED qerr
        ELSE qpc' = "thrown" /\ qerr' = "wav"
    /\ UNCHANGED <<wavSize, mp3Size, upload, prFrame>>

\* statFileSize(wavPath) is over: stat failed, or the size decides between
\* the WAV file and a re-encoding with ffmpeg
PrepareStatDone ==
    /\ qpc = "stat"
    /\ \E ok \in BOOLEAN :
        IF ~ok THEN qpc' = "thrown" /\ qerr' = "stat" /\ UNCHANGED upload
        ELSE IF FitsLimit(wavSize)
        THEN qpc' = "request" /\ upload' = "wav" /\ UNCHANGED qerr
        ELSE qpc' = "convert" /\ UNCHANGED <<qerr, upload>>
    /\ UNCHANGED <<wavSize, mp3Size, prFrame>>

\* convertAudioWithFfmpeg is over
PrepareConvertDone ==
    /\ qpc = "convert"
    /\ \E ok \in BOOLEAN :
        IF ok THEN qpc' = "restat" /\ UNCHANGED qerr
        ELSE qpc' = "thrown" /\ qerr' = "convert"
    /\ UNCHANGED <<wavSize, mp3Size, upload, prFrame>>

\* statFileSize(outputPath) is over: a file still above the limit makes
\* prepareAudioForOpenAI throw; the call in transcribeWithOpenAI is outside
\* its try block and transcribe does not catch, so transcribe throws
PrepareRestatDone ==
    /\ qpc = "restat"
    /\ \E ok \in BOOLEAN :
        IF ~ok THEN qpc' = "thrown" /\ qerr' = "stat" /\ UNCHANGED upload
        ELSE IF mp3Size > SizeLimitBytes
        THEN qpc' = "thrown" /\ qerr' = "toolarge" /\ UNCHANGED upload
        ELSE qpc' = "request" /\ upload' = "mp3" /\ UNCHANGED qerr
    /\ UNCHANGED <<wavSize, mp3Size, prFrame>>

NextPrepare ==
    \/ PrepareBegin
    \/ PrepareStatDone
    \/ PrepareConvertDone
    \/ PrepareRestatDone

(* ---------------------- timestamps as text ---------------------------- *)
Digits == <<"0", "1", "2", "3", "4", "5", "6", "7", "8", "9">>

IsDigit(c) == \E d \in 1..10 : Digits[d] = c

DigitValue(c) == (CHOOSE d \in 1..10 : Digits[d] = c) - 1

\* String(num) for a non-negative integer
RECURSIVE DecimalText(_)
DecimalText(n) ==
    IF n < 10 THEN <<Digits[n + 1]>>
    ELSE Append(DecimalText(n \div 10), Digits[(n % 10) + 1])

\* String.prototype.padStart(len, "0"): a longer text is left as it is
RECURSIVE PadStart(_, _)
PadStart(t, len) == IF Len(t) >= len THEN t ELSE PadStart(<<"0">> \o t, len)

\* pad(num, len)
Pad(num, len) == PadStart(DecimalText(num), len)
Max(a, b) == IF a >= b THEN a ELSE b

\* formatTimestamp: HH:MM:SS,mmm, the hours not wrapped
FormatTimestamp(ms) ==
    LET clamped == Max(0, ms)
        hours == clamped \div 3600000
        minutes == (clamped % 3600000) \div 60000
        seconds == (clamped % 60000) \div 1000
        millis == clamped % 1000
    IN  Pad(hours, 2) \o <<":">> \o Pad(minutes, 2) \o <<":">>
            \o Pad(seconds, 2) \o <<",">> \o Pad(millis, 3)

\* parseInt(text, 10) of a run of digits
RECURSIVE ParseInt(_)
ParseInt(t) ==
    IF t = <<>> THEN 0
    ELSE 10 * ParseInt(SubSeq(t, 1, Len(t) - 1)) + DigitValue(t[Len(t)])

\* /^(\d{2}):(\d{2}):(\d{2}),(\d{3})$/
MatchesTimestamp(t) ==
    /\ Len(t) = 12
    /\ \A i \in {1, 2, 4, 5, 7, 8, 10, 11, 12} : IsDigit(t[i])
    /\ t[3] = ":" /\ t[6] = ":" /\ t[9] = ","

\* parseTimestampMs: 0 for a text the pattern does not match
ParseTimestampMs(t) ==
    IF ~MatchesTimestamp(t) THEN 0
    ELSE (((ParseInt(SubSeq(t, 1, 2)) * 60 + ParseInt(SubSeq(t, 4, 5))) * 60)
            + ParseInt(SubSeq(t, 7, 8))) * 1000 + ParseInt(SubSeq(t, 10, 12))

\* the largest number of hours among the inputs
MaxStampHours == 100

\* whole milliseconds at the ends of every field's range
StampInputs ==
    {((h * 60 + m) * 60 + sec) * 1000 + ms :
        h \in {0, 1, 99, MaxStampHours}, m \in {0, 59}, sec \in {0, 59},
        ms \in {0, 1, 999}}

FormatStep ==
    /\ tpc = "input"
    /\ tsText' = FormatTimestamp(tsMs)
    /\ tpc' = "formatted"
    /\ UNCHANGED <<tsMs, tsParsed, tsFrame>>

ParseStep ==
    /\ tpc = "formatted"
    /\ tsParsed' = ParseTimestampMs(tsText)
    /\ tpc' = "parsed"
    /\ UNCHANGED <<tsMs, tsText, tsFrame>>

NextStamp ==
    \/ FormatStep
    \/ ParseStep

(* ------------- documents of the chunked variant (part_002) ------------ *)
\* lines.join("\n")
RECURSIVE JoinBreaks(_)
JoinBreaks(ls) ==
    IF ls = <<>> THEN <<>>
    ELSE IF Len(ls) = 1 THEN ls[1]
    ELSE ls[1] \o <<"\n">> \o JoinBreaks(Tail(ls))

\* the lines one block contributes: index, timing, text lines, ""
BlockLines(segment, index) ==
    <<DecimalText(index), segment.timing>> \o segment.text \o << <<>> >>

RECURSIVE AllBlockLines(_, _)
AllBlockLines(segs, index) ==
    IF segs = <<>> THEN <<>>
    ELSE BlockLines(Head(segs), index) \o AllBlockLines(Tail(segs), index + 1)

\* renderSegmentsToSrt of the chunked variant: blocks in the given order
RenderBlocksToSrt(segs) ==
    IF segs = <<>> THEN <<>> ELSE JoinBreaks(AllBlockLines(segs, 1))

\* content.split(/\r?\n\r?\n/) on a text without carriage returns: cut at
\* each pair of line breaks, from the left
RECURSIVE SplitAtBlankLines(_, _)
SplitAtBlankLines(t, piece) ==
    LET cuts == {i \in 1..(Len(t) - 1) : t[i] = "\n" /\ t[i + 1] = "\n"}
    IN  IF cuts = {} THEN <<piece \o t>>
        ELSE LET first == CHOOSE i \in cuts : \A j \in cuts : i <= j
             IN  <<piece \o SubSeq(t, 1, first - 1)>>
                    \o SplitAtBlankLines(SubSeq(t, first + 2, Len(t)), <<>>)

\* /^\d+$/
IsIndexLine(line) == line # <<>> /\ \A i \in 1..Len(line) : IsDigit(line[i])

\* isTimingLine: timestamp, spaces, -->, spaces, timestamp
IsTimingLine(line) ==
    /\ Len(line) >= 29
    /\ MatchesTimestamp(SubSeq(line, 1, 12))
    /\ MatchesTimestamp(SubSeq(line, Len(line) - 11, Len(line)))
    /\ LET middle == SubSeq(line, 13, Len(line) - 12) IN
        /\ \A i \in 1..Len(middle) : middle[i] \in {" ", "-", ">"}
        /\ IsSpace(middle[1]) /\ IsSpace(middle[Len(middle)])
        /\ Trim(middle) = <<"-", "-", ">">>

\* a block whose first line is never taken for an index
TimingLineIndex_None(lines) == 1

\* timingLineIndex (positions from 1): after an index line if there is one
TimingLineIndex(lines) == IF IsIndexLine(lines[1]) THEN 2 ELSE 1

\* a block that is dropped
NoBlock == [timing |-> <<>>, text |-> <<>>]

\* the callback of parseSrtBlocks for one trimmed block
ParseSrtBlock(block) ==
    LET pieces == SplitAtBreaks(block, <<>>)
        lines == [i \in 1..Len(pieces) |-> TrimEnd(pieces[i])]
    IN  IF Len(lines) < 2 THEN NoBlock
        ELSE LET index == TimingLineIndex(lines) IN
             IF ~IsTimingLine(lines[index]) THEN NoBlock
             ELSE [timing |-> lines[index],
                   text |-> SubSeq(lines, index + 1, Len(lines))]

\* parseSrtBlocks
ParseSrtBlocks(content) ==
    IF content = <<>> THEN <<>>
    ELSE LET pieces == SplitAtBlankLines(content, <<>>)
             trimmed == [i \in 1..Len(pieces) |-> Trim(pieces[i])]
             blocks == SelectSeq(trimmed, LAMBDA b : b # <<>>)
             parsed == [i \in 1..Len(blocks) |-> ParseSrtBlock(blocks[i])]
         IN  SelectSeq(parsed, LAMBDA b : b # NoBlock)

\* blocks per document
MaxBlocks == 2

\* the times at which blocks begin and end
BlockTimes == {0, 1000, 2500, 3600000}

\* `start --> end`
TimingLine(startMs, endMs) ==
    FormatTimestamp(startMs) \o <<" ", "-", "-", ">", " ">> \o FormatTimestamp(endMs)

\* text lines as splitTextIntoLines and parseSrtBlocks leave them: not
\* blank, no space at either end; a block may have no text line
BlockTexts ==
    { <<>>,
      << <<"H", "i">> >>,
      << <<"4", "2">> >>,
      << <<"a", " ", "b">>, <<"7">> >> }

Block(startMs, endMs, text) ==
    [timing |-> TimingLine(startMs, endMs), text |-> text]

\* documents of up to MaxBlocks blocks whose ranges are valid (start before
\* end) and do not overlap, in ascending order
RECURSIVE BlockLists(_, _)
BlockLists(n, from) ==
    IF n = 0 THEN {<<>>}
    ELSE {<<>>} \cup
         UNION { { <<Block(r[1], r[2], text)>> \o rest : rest \in BlockLists(n - 1, r[2]) } :
                    r \in {p \in BlockTimes \X BlockTimes : p[1] >= from /\ p[1] < p[2]},
                    text \in BlockTexts }

WellFormedLists == BlockLists(MaxBlocks, 0)

RenderFirst ==
    /\ spc = "input"
    /\ srtDoc' = RenderBlocksToSrt(srtIn)
    /\ spc' = "rendered"
    /\ UNCHANGED <<srtIn, srtParsed, srtDoc2, srtFrame>>

ParseBack ==
    /\ spc = "rendered"
    /\ srtParsed' = ParseSrtBlocks(srtDoc)
    /\ spc' = "parsed"
    /\ UNCHANGED <<srtIn, srtDoc, srtDoc2, srtFrame>>

RenderAgain ==
    /\ spc = "parsed"
    /\ srtDoc2' = RenderBlocksToSrt(srtParsed)
    /\ spc' = "rerendered"
    /\ UNCHANGED <<srtIn, srtDoc, srtParsed, srtFrame>>

NextSrt ==
    \/ RenderFirst
    \/ ParseBack
    \/ RenderAgain

(* ------------- chunked transcription (window requests) ---------------- *)
\* STREAM_CHUNK_SECONDS
StreamChunkSeconds == 10
\* STREAM_CHUNK_SECONDS * 1000
WindowMs == StreamChunkSeconds * 1000

\* the longest recording, in windows
MaxWindows == 3

\* what estimateAudioDurationMs returns: null (0 here) or whole milliseconds
Durations ==
    {d \in {k * WindowMs + r : k \in 0..MaxWindows, r \in {-1, 0, 1, 5000}} :
        d >= 0 /\ d <= MaxWindows * WindowMs}

Min(a, b) == IF a <= b THEN a ELSE b

\* a window as long as the chunk length whatever is left
ChunkDurationMs_Fixed(remainingMs) == WindowMs

\* chunkDurationMs
ChunkDurationMs(remainingMs) == Min(WindowMs, remainingMs)

\* `!totalDurationMs || totalDurationMs <= STREAM_CHUNK_SECONDS * 1000`
WholeFile(d) == d = 0 \/ d <= WindowMs

\* the loop head and the start of an iteration: while processedMs is below
\* the total a window is begun (extractAudioChunk is called), else the
\* function returns
LoopHead(done) ==
    IF done < totalDurationMs
    THEN /\ cpc' = "extract"
         /\ windowLog' = Append(windowLog,
                [index |-> chunkIndex', start |-> done,
                 duration |-> ChunkDurationMs(totalDurationMs - done),
                 outcome |-> "running", removed |-> FALSE])
    ELSE /\ cpc' = "returned"
         /\ UNCHANGED windowLog

\* the window in progress, with its outcome or its removal recorded
Current(field, value) ==
    [windowLog EXCEPT ![Len(windowLog)] = [@ EXCEPT ![field] = value]]

\* leaving the try block only on success, a failure thrown at once
FinallyPc_OnlySuccess(e) == IF e = "none" THEN "remove" ELSE "thrown"

\* the try block of an iteration is left: the finally block calls
\* removeFileQuietly(chunkPath)
FinallyPc(e) == "remove"

\* estimateAudioDurationMs is over (its errors give null): one whole-file
\* request, or the loop
ChunkEstimated ==
    /\ cpc = "estimate"
    /\ IF WholeFile(totalDurationMs)
       THEN /\ cpc' = "whole"
            /\ wholeRequests' = wholeRequests + 1
            /\ UNCHANGED <<windowLog, processedMs, chunkIndex>>
       ELSE /\ processedMs' = 0
            /\ chunkIndex' = 0
            /\ LoopHead(0)
            /\ UNCHANGED wholeRequests
    /\ UNCHANGED <<cerr, totalDurationMs, aggregatedSegments, answered, ioVars, ckFrame>>

\* a shift that moves no line
ShiftTimingLine_Unshifted(line, offsetMs) == line

\* shiftTimingLine: the line as it is for an offset of 0 or a line that is
\* no timing line, else both stamps parsed, moved and formatted again
ShiftTimingLine(line, offsetMs) ==
    IF ~IsTimingLine(line) \/ offsetMs = 0 THEN line
    ELSE TimingLine(
            Max(0, ParseTimestampMs(SubSeq(line, 1, 12)) + offsetMs),
            Max(0, ParseTimestampMs(SubSeq(line, Len(line) - 11, Len(line))) + offsetMs))

\* shiftSrtBlocks
ShiftSrtBlocks(blocks, offsetMs) ==
    [i \in 1..Len(blocks) |->
        [timing |-> ShiftTimingLine(blocks[i].timing, offsetMs), text |-> blocks[i].text]]

\* what the backend answers for one window: no block, one block, two
\* blocks, with times counted from the start of the window
WindowAnswers ==
    { <<>>,
      << [startMs |-> 0, endMs |-> 2500, text |-> << <<"H", "i">> >>] >>,
      << [startMs |-> 1000, endMs |-> 2500, text |-> << <<"4", "2">> >>],
         [startMs |-> 2500, endMs |-> 9999, text |-> << <<"a", " ", "b">>, <<"7">> >>] >> }

\* the answer to one inference request is parsed, its blocks shifted by
\* offsetMs and pushed, and the document of all the blocks so far written
\* and loaded; an error of file.write is thrown
Aggregate(blocks, offsetMs, done, failed) ==
    LET chunkSrt == RenderBlocksToSrt(
                        [i \in 1..Len(blocks) |->
                            Block(blocks[i].startMs, blocks[i].endMs, blocks[i].text)])
        pushed == aggregatedSegments \o ShiftSrtBlocks(ParseSrtBlocks(chunkSrt), offsetMs)
    IN  /\ aggregatedSegments' = pushed
        /\ \E written \in BOOLEAN :
              /\ WriteThrough(written, RenderBlocksToSrt(pushed))
              /\ IF written
                 THEN /\ cpc' = done
                      /\ answered' = Append(answered,
                            [window |-> Len(windowLog) + wholeRequests, blocks |-> blocks])
                      /\ UNCHANGED cerr
                 ELSE /\ cpc' = failed
                      /\ cerr' = "write"
                      /\ UNCHANGED answered

\* the whole-file request is over: its document is written and loaded
WholeFileDone ==
    /\ cpc = "whole"
    /\ \E ok \in BOOLEAN :
        IF ok
        THEN \E blocks \in WindowAnswers :
                 Aggregate(blocks, 0, "returned", "thrown")
        ELSE /\ cpc' = "thrown"
             /\ cerr' = "infer"
             /\ UNCHANGED <<aggregatedSegments, answered, ioVars>>
    /\ UNCHANGED <<totalDurationMs, processedMs, chunkIndex, windowLog,
                   wholeRequests, ckFrame>>

\* extractAudioChunk is over: ffmpeg failed, or the window is sent
ExtractDone ==
    /\ cpc = "extract"
    /\ \E ok \in BOOLEAN :
        IF ok
        THEN cpc' = "infer" /\ UNCHANGED <<cerr, windowLog>>
        ELSE /\ cpc' = FinallyPc("extract")
             /\ cerr' = "extract"
             /\ windowLog' = Current("outcome", "extract")
    /\ UNCHANGED <<totalDurationMs, processedMs, chunkIndex, wholeRequests,
                   aggregatedSegments, answered, ioVars, ckFrame>>

\* the window's inference request is over: on success its blocks are
\* shifted and appended, the document written and loaded, processedMs and
\* chunkIndex advanced
WindowInferDone ==
    /\ cpc = "infer"
    /\ \E ok \in BOOLEAN :
        IF ok
        THEN \E blocks \in WindowAnswers :
               /\ Aggregate(blocks, processedMs, FinallyPc("none"), FinallyPc("write"))
               /\ IF cerr' = "none"
                  THEN /\ processedMs' = processedMs + windowLog[Len(windowLog)].duration
                       /\ chunkIndex' = chunkIndex + 1
                       /\ windowLog' = Current("outcome", "ok")
                  ELSE /\ windowLog' = Current("outcome", "write")
                       /\ UNCHANGED <<processedMs, chunkIndex>>
        ELSE /\ cpc' = FinallyPc("infer")
             /\ cerr' = "infer"
             /\ windowLog' = Current("outcome", "infer")
             /\ UNCHANGED <<processedMs, chunkIndex, aggregatedSegments, answered,
                            ioVars>>
    /\ UNCHANGED <<totalDurationMs, wholeRequests, ckFrame>>

\* removeFileQuietly is over (an error of /bin/rm is logged): the pending
\* error is thrown, or the loop goes on
RemoveDone ==
    /\ cpc = "remove"
    /\ IF cerr # "none"
       THEN /\ cpc' = "thrown"
            /\ windowLog' = Current("removed", TRUE)
       ELSE LET marked == Current("removed", TRUE) IN
            IF processedMs < totalDurationMs
            THEN /\ cpc' = "extract"
                 /\ windowLog' = Append(marked,
                        [index |-> chunkIndex, start |-> processedMs,
                         duration |-> ChunkDurationMs(totalDurationMs - processedMs),
                         outcome |-> "running", removed |-> FALSE])
            ELSE /\ cpc' = "returned"
                 /\ windowLog' = marked
    /\ UNCHANGED <<cerr, totalDurationMs, processedMs, chunkIndex, wholeRequests,
                   aggregatedSegments, answered, ioVars, ckFrame>>

NextChunks ==
    \/ ChunkEstimated
    \/ WholeFileDone
    \/ ExtractDone
    \/ WindowInferDone
    \/ RemoveDone

(* ------------- the backend log as a document (part_000) --------------- *)
\* a timestamp as the backend logs it: HH:MM:SS.mmm
LogStamp(ms) == [i \in 1..Len(FormatTimestamp(ms)) |->
                    IF FormatTimestamp(ms)[i] = "," THEN "." ELSE FormatTimestamp(ms)[i]]

\* \d{2}:\d{2}:\d{2}\.\d{3}
MatchesLogStamp(t) ==
    /\ Len(t) = 12
    /\ \A i \in {1, 2, 4, 5, 7, 8, 10, 11, 12} : IsDigit(t[i])
    /\ t[3] = ":" /\ t[6] = ":" /\ t[9] = "."

\* LOG_SEGMENT_REGEX on a trimmed line: [start --> end], space, text
MatchesLogSegment(line) ==
    /\ Len(line) >= 32
    /\ line[1] = "["
    /\ MatchesLogStamp(SubSeq(line, 2, 13))
    /\ SubSeq(line, 14, 18) = <<" ", "-", "-", ">", " ">>
    /\ MatchesLogStamp(SubSeq(line, 19, 30))
    /\ line[31] = "]"
    /\ IsSpace(line[32])

\* text.split("."): the pieces between the dots
RECURSIVE SplitAtDots(_, _)
SplitAtDots(t, piece) ==
    IF t = <<>> THEN <<piece>>
    ELSE IF Head(t) = "." THEN <<piece>> \o SplitAtDots(Tail(t), <<>>)
    ELSE SplitAtDots(Tail(t), Append(piece, Head(t)))

\* convertLogTimestamp: `whole,frac` with the fraction cut or filled to 3
ConvertLogTimestamp(value) ==
    IF value = <<>> THEN FormatTimestamp(0)
    ELSE LET parts == SplitAtDots(value, <<>>)
             fractional == IF Len(parts) >= 2 THEN parts[2] ELSE <<"0", "0", "0">>
         IN  parts[1] \o <<",">> \o SubSeq(fractional \o <<"0", "0", "0">>, 1, 3)

\* the key of a matching line in `seen`
SeenKey(line) ==
    <<SubSeq(line, 2, 13), SubSeq(line, 19, 30), Trim(SubSeq(line, 32, Len(line)))>>

\* every key counts as new
Unseen_Always(key, seenKeys) == TRUE

\* `if (seen.has(key)) continue;`
Unseen(key, seenKeys) == key \notin seenKeys

\* collectNewSegments over the lines of the log, starting with nothing
\* seen: lines are trimmed, lines that do not match are skipped, a line
\* seen before is skipped, the others are pushed in their order
RECURSIVE CollectNewSegments(_, _, _)
CollectNewSegments(lines, seenKeys, segs) ==
    IF lines = <<>> THEN segs
    ELSE LET line == Trim(Head(lines)) IN
         IF line = <<>> \/ ~MatchesLogSegment(line) \/ ~Unseen(SeenKey(line), seenKeys)
         THEN CollectNewSegments(Tail(lines), seenKeys, segs)
         ELSE CollectNewSegments(Tail(lines), seenKeys \cup {SeenKey(line)},
                Append(segs,
                    [timing |-> ConvertLogTimestamp(SubSeq(line, 2, 13))
                                    \o <<" ", "-", "-", ">", " ">>
                                    \o ConvertLogTimestamp(SubSeq(line, 19, 30)),
                     text |-> <<Trim(SubSeq(line, 32, Len(line)))>>]))

\* normalizeRenderableSegment for a segment with a timing line:
\* timing.split(/\s+-->\s+/) and parseTimestampMs of both parts
NormalizeRenderableSegment(segment) ==
    [startMs |-> ParseTimestampMs(SubSeq(segment.timing, 1, 12)),
     endMs |-> ParseTimestampMs(SubSeq(segment.timing, Len(segment.timing) - 11,
                                        Len(segment.timing))),
     textLines |-> segment.text]

\* the lines of one normalized segment: index, timing, text lines, ""
SegmentLines(segment, index) ==
    <<DecimalText(index), TimingLine(segment.startMs, segment.endMs)>>
        \o segment.textLines \o << <<>> >>

RECURSIVE AllSegmentLines(_, _)
AllSegmentLines(segs, index) ==
    IF segs = <<>> THEN <<>>
    ELSE SegmentLines(Head(segs), index) \o AllSegmentLines(Tail(segs), index + 1)

\* renderSegmentsToSrt: normalize, sort by startMs, number, join with "\n"
RenderSegmentsToSrt(segs) ==
    IF segs = <<>> THEN <<>>
    ELSE LET normalized == [i \in 1..Len(segs) |-> NormalizeRenderableSegment(segs[i])]
         IN  JoinBreaks(AllSegmentLines(SortByStart(normalized), 1))

\* lines per log
MaxLogLines == 3

\* what the backend logs: segments, and a line that is no segment
LogEntries ==
    { [kind |-> "segment", start |-> 1000, end |-> 2500, text |-> <<"H", "i">>],
      [kind |-> "segment", start |-> 2500, end |-> 4000, text |-> <<"y", "o">>],
      [kind |-> "segment", start |-> 4000, end |-> 3600000, text |-> <<"a", " ", "b">>],
      [kind |-> "segment", start |-> 0, end |-> 1000, text |-> <<"4">>],
      [kind |-> "other", start |-> 0, end |-> 0, text |-> <<"m", "a", "i", "n", ":">>] }

\* the text of a log line: `[start --> end]  text`, or the text alone
LogLine(entry) ==
    IF entry.kind = "segment"
    THEN <<"[">> \o LogStamp(entry.start) \o <<" ", "-", "-", ">", " ">>
            \o LogStamp(entry.end) \o <<"]", " ", " ">> \o entry.text
    ELSE entry.text

RECURSIVE LogsOf(_)
LogsOf(n) ==
    IF n = 0 THEN {<<>>}
    ELSE {<<>>} \cup {<<e>> \o rest : e \in LogEntries, rest \in LogsOf(n - 1)}

Logs == LogsOf(MaxLogLines)

\* one pass of the polling loop over the whole log
CollectStep ==
    /\ gpc = "input"
    /\ collected' = CollectNewSegments(
            [i \in 1..Len(logContent) |-> LogLine(logContent[i])], {}, <<>>)
    /\ gpc' = "collected"
    /\ UNCHANGED <<logContent, logDoc, lgFrame>>

RenderStep ==
    /\ gpc = "collected"
    /\ logDoc' = RenderSegmentsToSrt(collected)
    /\ gpc' = "rendered"
    /\ UNCHANGED <<logContent, collected, lgFrame>>

NextLogRender ==
    \/ CollectStep
    \/ RenderStep

(* ------------- the response stream as text ---------------------------- *)
\* the events a stream can carry; `{k}` stands for the JSON text of the
\* k-th of them
EventTable ==
    << Event("transcript.text.segment",
             [id |-> 1, start |-> 0, end |-> 1, text |-> <<"a">>], <<>>, FALSE, <<>>),
       Event("transcript.text.segment",
             [id |-> 2, start |-> 1, end |-> 2, text |-> <<"b">>], <<>>, FALSE, <<>>),
       Event("transcript.text.delta", RawNone, <<>>, TRUE, <<"H">>) >>

NoEvent == Event("none", RawNone, <<>>, FALSE, <<>>)

\* line.startsWith(prefix)
StartsWith(line, prefix) ==
    Len(line) >= Len(prefix) /\ SubSeq(line, 1, Len(prefix)) = prefix

\* JSON.parse accepts the payload
ParsesAsJson(payload) ==
    /\ Len(payload) = 3
    /\ payload[1] = "{" /\ payload[3] = "}"
    /\ IsDigit(payload[2])
    /\ DigitValue(payload[2]) \in 1..Len(EventTable)

\* the tests of processLine on the text of a line: what kind of line it is
ClassifyLine(line) ==
    IF line = <<>> \/ StartsWith(line, <<":">>)
            \/ ~StartsWith(line, <<"d", "a", "t", "a", ":">>)
    THEN [kind |-> "comment", event |-> NoEvent]
    ELSE LET payload == Trim(SubSeq(line, 6, Len(line))) IN
         IF payload = <<>> \/ payload = <<"[", "D", "O", "N", "E", "]">>
         THEN [kind |-> "marker", event |-> NoEvent]
         ELSE IF ParsesAsJson(payload)
         THEN [kind |-> "event", event |-> EventTable[DigitValue(payload[2])]]
         ELSE [kind |-> "malformed", event |-> NoEvent]

\* buffer.indexOf("\n"), positions from 1; 0 when there is none
IndexOfBreak(t) ==
    IF \E i \in 1..Len(t) : t[i] = "\n"
    THEN CHOOSE i \in 1..Len(t) : t[i] = "\n" /\ \A j \in 1..(i - 1) : t[j] # "\n"
    ELSE 0

\* what is left in the buffer handled at the end of every chunk
Forced_Always(force) == TRUE

\* processBuffer(force): `force && buffer.trim().length > 0`
Forced(force) == force

\* processLine(line) for the text of a line, the call recorded
ProcessLineText(st, line) ==
    [st EXCEPT !.h = ProcessLine(st.h, ClassifyLine(line)),
               !.lines = Append(st.lines, ClassifyLine(line))]

\* processBuffer on the text of the buffer: every complete line is cut
\* off, trimmed and handled; with force what is left is handled as a line
RECURSIVE ProcessBufferText(_, _)
ProcessBufferText(st, force) ==
    LET newlineIndex == IndexOfBreak(st.buffer) IN
    IF newlineIndex > 0
    THEN ProcessBufferText(
            ProcessLineText(
                [st EXCEPT !.buffer = SubSeq(st.buffer, newlineIndex + 1, Len(st.buffer))],
                Trim(SubSeq(st.buffer, 1, newlineIndex - 1))),
            force)
    ELSE IF Forced(force) /\ Trim(st.buffer) # <<>>
    THEN ProcessLineText([st EXCEPT !.buffer = <<>>], Trim(st.buffer))
    ELSE st

\* handleChunk: an empty chunk is ignored
HandleChunkText(st, chunk) ==
    IF chunk = <<>> THEN st
    ELSE ProcessBufferText([st EXCEPT !.buffer = st.buffer \o chunk], FALSE)

\* the handler with its buffer, and the lines given to processLine
HandlerText == [buffer |-> buffer, h |-> Handler, lines |-> processed]
NewHandlerText == [buffer |-> <<>>, h |-> NewHandler, lines |-> <<>>]

Becomes(st) ==
    /\ buffer' = st.buffer
    /\ segments' = st.h.segments
    /\ segmentMap' = st.h.segmentMap
    /\ scheduledFlushes' = st.h.flushes
    /\ broken' = st.h.broken
    /\ processed' = st.lines

\* lines per stream
MaxStreamLines == 2

\* the texts of the lines: the events, the end marker, a comment
LineTexts ==
    {<<"d", "a", "t", "a", ":", " ", "{", Digits[k + 1], "}">> : k \in 1..Len(EventTable)}
    \cup {<<"d", "a", "t", "a", ":", " ", "[", "D", "O", "N", "E", "]">>, <<":", "k">>}

RECURSIVE LineSeqs(_)
LineSeqs(n) ==
    IF n = 1 THEN {<<l>> : l \in LineTexts}
    ELSE LineSeqs(n - 1) \cup {Append(ls, l) : ls \in LineSeqs(n - 1), l \in LineTexts}

\* streams of lines, the last line with or without its line break
Streams ==
    {JoinBreaks(ls) \o tail : ls \in LineSeqs(MaxStreamLines), tail \in {<<>>, <<"\n">>}}

\* utils.exec calls handleChunk with the next characters of the stream
TextChunk ==
    /\ ~finalized /\ ~broken
    /\ sent < Len(stream)
    /\ \E n \in 1..(Len(stream) - sent) :
        /\ Becomes(HandleChunkText(HandlerText, SubSeq(stream, sent + 1, sent + n)))
        /\ sent' = sent + n
        /\ cutInside' = (cutInside \/ (sent + n < Len(stream) /\ stream[sent + n] # "\n"))
    /\ UNCHANGED <<stream, finalized, spFrame>>

\* utils.exec has ended: handler.finalize()
TextFinalize ==
    /\ ~finalized /\ ~broken
    /\ sent = Len(stream)
    /\ finalized' = TRUE
    /\ Becomes(ProcessBufferText(HandlerText, TRUE))
    /\ UNCHANGED <<stream, sent, cutInside, spFrame>>

NextSplit ==
    \/ TextChunk
    \/ TextFinalize

(* ------------- the polls of the log monitor over a growing log -------- *)
\* the keys collectNewSegments adds to `seen` over the lines of the log
RECURSIVE SeenAfter(_, _)
SeenAfter(lines, seenKeys) ==
    IF lines = <<>> THEN seenKeys
    ELSE LET line == Trim(Head(lines)) IN
         IF line = <<>> \/ ~MatchesLogSegment(line)
         THEN SeenAfter(Tail(lines), seenKeys)
         ELSE SeenAfter(Tail(lines), seenKeys \cup {SeenKey(line)})

\* lines the backend logs during a session at most
MaxPollLines == 2

\* the backend appends a line to its log
LogAppend ==
    /\ Len(pollLog) < MaxPollLines
    /\ \E entry \in LogEntries : pollLog' = Append(pollLog, entry)
    /\ UNCHANGED <<seen, pollSegments, pollCount, polledLines, pollUpdated,
                   ioVars, plFrame>>

\* one iteration of the loop of startLogMonitor: collectNewSegments reads
\* the whole log again; when it reports an update the document of all the
\* segments is written (an error of file.write is caught and logged) and
\* the track is loaded again
PollLog ==
    /\ pollCount < MaxPolls
    /\ pollCount' = pollCount + 1
    /\ polledLines' = Len(pollLog)
    /\ LET lines == [i \in 1..Len(pollLog) |-> LogLine(pollLog[i])]
           segs == CollectNewSegments(lines, seen, pollSegments)
           updated == Len(segs) > Len(pollSegments)
       IN /\ seen' = SeenAfter(lines, seen)
          /\ pollSegments' = segs
          /\ pollUpdated' = updated
          /\ IF updated
             THEN \E written \in BOOLEAN :
                      WriteThrough(written, RenderSegmentsToSrt(segs))
             ELSE UNCHANGED ioVars
    /\ UNCHANGED <<pollLog, plFrame>>

NextPoll ==
    \/ LogAppend
    \/ PollLog

(* ------------- one segment, from the event to the document ------------ *)
\* text.trim().split(/\s+/).filter(Boolean).length
RECURSIVE WordCount(_, _)
WordCount(t, inWord) ==
    IF t = <<>> THEN 0
    ELSE IF IsSpace(Head(t)) THEN WordCount(Tail(t), FALSE)
    ELSE (IF inWord THEN 0 ELSE 1) + WordCount(Tail(t), TRUE)

\* averageMsPerWord
AverageMsPerWord == 320

\* estimateDurationFromText: 320 ms for each word, 4000 ms without a word
EstimateDurationFromText(t) ==
    LET words == WordCount(t, FALSE)
    IN  IF words > 0 THEN words * AverageMsPerWord ELSE 4000

\* estimateDurationFromTextLines: 2000 ms without a line, else the
\* estimate for the lines joined with a space
EstimateDurationFromTextLines(ls) ==
    IF ls = <<>> THEN 2000 ELSE EstimateDurationFromText(JoinLines(ls))

\* normalizeRenderableSegment for a segment without a timing line: of
\* segment.endMs and startMs + the estimate those above startMs count and
\* the larger is the end (the estimate is positive, so one always counts);
\* blank text lines are dropped
NormalizeRenderableTimed(segment) ==
    LET startMs == segment.startMs
        estimated == startMs + EstimateDurationFromTextLines(segment.textLines)
        candidates == {v \in {segment.endMs, estimated} : v > startMs}
        filtered == SelectSeq(segment.textLines, LAMBDA l : Trim(l) # <<>>)
    IN  [id |-> segment.id,
         startMs |-> startMs,
         endMs |-> IF candidates = {} THEN startMs + 2000
                   ELSE IF segment.endMs > startMs
                        THEN Max(segment.endMs, estimated) ELSE estimated,
         textLines |-> IF filtered = <<>> THEN << <<>> >> ELSE filtered]

\* the segments a segment event can carry: an end after, at and before the
\* start, and no end at all
TimedRaws ==
    { [id |-> i, start |-> s, end |-> e, text |-> t] :
        i \in {0, 1}, s \in {0, 1, 5}, e \in {NoEnd, 0, 1, 3, 5, 7},
        t \in { <<"a">>, <<"a", " ", "b">>, <<" ", "c", " ", "d", " ", " ", "e">> } }

\* upsertSegment normalizes the segment of the event
NormalizeStep ==
    /\ zpc = "input"
    /\ storedSegment' = NormalizeOpenAISegment(rawSegment)
    /\ zpc' = "stored"
    /\ UNCHANGED <<rawSegment, renderable, ioVars, nzFrame>>

\* renderSegmentsToSrt normalizes the stored segment for its block
RenderableStep ==
    /\ zpc = "stored"
    /\ storedSegment # NoSegment
    /\ renderable' = NormalizeRenderableTimed(storedSegment)
    /\ zpc' = "rendered"
    /\ UNCHANGED <<rawSegment, storedSegment, ioVars, nzFrame>>

NextNormalize ==
    \/ NormalizeStep
    \/ RenderableStep

(* ------------- a final transcript whose segments are all blank -------- *)
\* final transcripts with a non-empty list of segments of which none has
\* text: one segment, two segments
BlankDoneEvents ==
    { Event("transcript.text.done", RawNone,
            << [id |-> 3, start |-> 0, end |-> 1, text |-> <<" ">>] >>, FALSE, <<>>),
      Event("transcript.text.done", RawNone,
            << [id |-> 1, start |-> 0, end |-> 1, text |-> <<>>],
               [id |-> 2, start |-> 1, end |-> 2, text |-> <<" ", " ">>] >>,
            FALSE, <<>>) }

\* the lines of a stream of segments with such final transcripts
BlankFinalLines ==
    {[kind |-> "event", event |-> e] : e \in SegmentEvents \cup BlankDoneEvents}

\* handleChunk with one such line
BlankFinalChunk ==
    /\ ~finalized /\ ~broken
    /\ \E l \in BlankFinalLines : Process(<<l>>)
    /\ UNCHANGED <<finalized, evFrame>>

NextBlankFinal ==
    \/ BlankFinalChunk
    \/ WriteThroughRun

(* --------------------------- specifications --------------------------- *)
\* what a previous run of the application can have left behind
LeftBehind ==
    { <<Absent, {}>>, <<Garbage, {}>>, <<StalePid, {}>>, <<StalePid, {StalePid}>> }

InitSrv ==
    /\ pc = [p \in Calls |-> "idle"]
    /\ server = [p \in Calls |-> NoPid]
    /\ err = [p \in Calls |-> "none"]
    /\ sessionReturned = [p \in Calls |-> FALSE]
    /\ stopPid = [p \in Calls |-> NoPid]
    /\ stopLog = [p \in Calls |-> <<>>]
    /\ stopCount = [p \in Calls |-> 0]
    /\ stopRaised = [p \in Calls |-> FALSE]
    /\ recordAfterStop = [p \in Calls |-> Absent]
    /\ activeServerInfo = NoPid
    /\ \E l \in LeftBehind : pidFile = l[1] /\ alive = l[2]

InitRdy ==
    /\ now = 0
    /\ deadline = 0
    /\ issuedAt = 0
    /\ lastError = "none"
    /\ lastAnswer = "none"
    /\ okIssuedAt = -1
    /\ readyAt = 0
    /\ ideal = TRUE

InitFlush ==
    /\ opc = "prepare"
    /\ oerr = "none"
    /\ tasks = <<>>
    /\ writeChain = 0
    /\ waitTail = 0
    /\ chunks = 0
    /\ docVer = 0
    /\ fileVer = -1

InitRec ==
    /\ rpc = [r \in Recoveries |-> "r_idle"]
    /\ rpid = [r \in Recoveries |-> NoPid]
    /\ rLog = [r \in Recoveries |-> <<>>]
    /\ rEndRecord = [r \in Recoveries |-> Absent]

\* the subtitle file of an earlier transcription, if any, is "old"
InitIo ==
    /\ subtitleFile = <<"old">>
    /\ ioLog = <<>>

InitLog ==
    /\ lpc = "idle"
    /\ mpc = "idle"
    /\ merr = "none"
    /\ stopRequested = FALSE
    /\ finalSrt = "pending"
    /\ logSegs = 0
    /\ finalWritten = FALSE

InitEv ==
    /\ segments = NewHandler.segments
    /\ segmentMap = NewHandler.segmentMap
    /\ scheduledFlushes = NewHandler.flushes
    /\ broken = NewHandler.broken
    /\ processed = <<>>
    /\ finalized = FALSE

\* a body of the kind a remote backend sends for a transcript
InitNs ==
    /\ npc = "idle"
    /\ nerr = "none"
    /\ responseBody = [json |-> TRUE, segments |-> "some", text |-> "absent",
                       error |-> FALSE, arrow |-> FALSE, webvtt |-> FALSE,
                       empty |-> FALSE]
    /\ writtenSrt = "none"

\* a WAV file below the limit
InitPr ==
    /\ qpc = "idle"
    /\ qerr = "none"
    /\ wavSize = 0
    /\ mp3Size = 0
    /\ upload = "none"

\* a recording of unknown duration
InitCk ==
    /\ cpc = "estimate"
    /\ cerr = "none"
    /\ totalDurationMs = 0
    /\ processedMs = 0
    /\ chunkIndex = 0
    /\ windowLog = <<>>
    /\ wholeRequests = 0
    /\ aggregatedSegments = <<>>
    /\ answered = <<>>

InitTs ==
    /\ tpc = "input"
    /\ tsMs = 0
    /\ tsText = <<>>
    /\ tsParsed = 0

InitSrt ==
    /\ spc = "input"
    /\ srtIn = <<>>
    /\ srtDoc = <<>>
    /\ srtParsed = <<>>
    /\ srtDoc2 = <<>>

InitLg ==
    /\ gpc = "input"
    /\ logContent = <<>>
    /\ collected = <<>>
    /\ logDoc = <<>>

InitRp == flushesRun = 0

InitSp ==
    /\ stream = <<>>
    /\ sent = 0
    /\ buffer = <<>>
    /\ cutInside = FALSE

InitPl ==
    /\ pollLog = <<>>
    /\ seen = {}
    /\ pollSegments = <<>>
    /\ pollCount = 0
    /\ polledLines = 0
    /\ pollUpdated = FALSE

InitNz ==
    /\ zpc = "input"
    /\ rawSegment = RawNone
    /\ storedSegment = NoSegment
    /\ renderable = NoSegment

InitMore == InitPr /\ InitCk /\ InitTs /\ InitSrt /\ InitLg /\ InitRp /\ InitSp
                /\ InitPl /\ InitNz

InitExt == InitIo /\ InitLog /\ InitEv /\ InitNs /\ InitMore

Init == InitSrv /\ InitRec /\ InitRdy /\ InitFlush /\ InitExt

CallStep(p) ==
    \/ Transcribe(p)
    \/ StartLaunch(p)
    \/ SpawnResult(p)
    \/ ProbeAnswer(p)
    \/ ProbeSleepDone(p)
    \/ InferenceResult(p)
    \/ FinalizeDone(p)
    \/ PersistDone(p)
    \/ StopTermResult(p)
    \/ StopSleepDone(p)
    \/ StopKillResult(p)

RecoverStep(r) ==
    \/ RecoverBegin(r)
    \/ RecoverTermResult(r)
    \/ RecoverDelayDone(r)
    \/ RecoverKillResult(r)

\* a fresh start of the application: no record, no backend
InitFresh ==
    InitSrv /\ InitRec /\ InitRdy /\ InitFlush /\ InitExt /\ pidFile = Absent /\ alive = {}

Next ==
    \/ \E p \in Calls : CallStep(p)
    \/ \E pid \in Pids : BackendExits(pid)

Spec == InitFresh /\ [][Next]_vars

\* the calls whose session is torn down again in SpecStop
StopCalls == {1, 2}

NextStop ==
    \/ \E p \in StopCalls : CallStep(p)
    \/ \E p \in StopCalls : SecondTeardown(p)
    \/ \E pid \in Pids : BackendExits(pid)

SpecStop == InitFresh /\ [][NextStop]_vars

\* the calls that run beside the recovery routine in SpecRecover
RecoverCalls == {1}

NextRecover ==
    \/ \E p \in RecoverCalls : CallStep(p)
    \/ \E pid \in Pids : BackendExits(pid)
    \/ \E r \in Recoveries : RecoverStep(r)

SpecRecover == Init /\ [][NextRecover]_vars

\* the calls whose startWhisperServer is followed with the clock
ReadyCalls == {1}

InitReady ==
    /\ InitSrv /\ InitRec /\ InitFlush /\ InitExt
    /\ pidFile = Absent /\ alive = {}
    /\ now = 0 /\ deadline = 0 /\ issuedAt = 0
    /\ lastError = "none" /\ lastAnswer = "none" /\ okIssuedAt = -1
    /\ ideal = TRUE
    /\ readyAt \in ReadyTimes

ReadyStep(p) ==
    \/ Transcribe(p)
    \/ StartLaunch(p)
    \/ TimedSpawnResult(p)
    \/ TimedProbeAnswer(p)
    \/ TimedSleepDone(p)
    \/ StopTermResult(p)
    \/ StopSleepDone(p)
    \/ StopKillResult(p)

NextReady ==
    \/ \E p \in ReadyCalls : ReadyStep(p)
    \/ \E pid \in Pids : BackendExits(pid)

SpecReady == InitReady /\ [][NextReady]_vars

SpecFlush == InitFresh /\ [][NextFlush]_vars

SpecLog == InitFresh /\ [][NextLog]_vars

\* the same with the timers firing and the settled promises' continuations
\* running: the sleep and the reload of the loop end, and finalize goes on
\* once the promise it awaits has settled; the inference request need not
\* ever settle
SpecLogLive ==
    /\ InitFresh
    /\ [][NextLog]_vars
    /\ WF_vars(LoopReloadDone)
    /\ WF_vars(LoopSleepDone)
    /\ WF_vars(FinalizeResume)
    /\ WF_vars(FinalReloadDone)

SpecEvents == InitFresh /\ [][NextEvents]_vars

\* the stream handler with its write-throughs running between the chunks
SpecReplace == InitFresh /\ [][NextReplace]_vars

\* the non-streaming request, for every response body
InitNonStream ==
    /\ InitSrv /\ InitRec /\ InitRdy /\ InitFlush /\ InitIo /\ InitLog /\ InitEv
    /\ InitMore
    /\ pidFile = Absent /\ alive = {}
    /\ npc = "idle" /\ nerr = "none" /\ writtenSrt = "none"
    /\ responseBody \in Bodies

SpecNonStream == InitNonStream /\ [][NextNonStream]_vars

\* the session, stream and request models at rest
InitBase ==
    /\ InitSrv /\ InitRec /\ InitRdy /\ InitFlush /\ InitIo /\ InitLog /\ InitEv /\ InitNs
    /\ pidFile = Absent /\ alive = {}

\* audio preparation, for every pair of file sizes
InitPrepare ==
    /\ InitBase /\ InitCk /\ InitTs /\ InitSrt /\ InitLg /\ InitRp /\ InitSp /\ InitPl
        /\ InitNz
    /\ qpc = "idle" /\ qerr = "none" /\ upload = "none"
    /\ wavSize \in FileSizes
    /\ mp3Size \in FileSizes

SpecPrepare == InitPrepare /\ [][NextPrepare]_vars

\* the chunk loop, for every duration
InitChunks ==
    /\ InitBase /\ InitPr /\ InitTs /\ InitSrt /\ InitLg /\ InitRp /\ InitSp /\ InitPl
        /\ InitNz
    /\ cpc = "estimate" /\ cerr = "none"
    /\ processedMs = 0 /\ chunkIndex = 0
    /\ windowLog = <<>> /\ wholeRequests = 0
    /\ aggregatedSegments = <<>> /\ answered = <<>>
    /\ totalDurationMs \in Durations

SpecChunks == InitChunks /\ [][NextChunks]_vars

\* formatTimestamp followed by parseTimestampMs, for every input
InitStamp ==
    /\ InitBase /\ InitPr /\ InitCk /\ InitSrt /\ InitLg /\ InitRp /\ InitSp /\ InitPl
        /\ InitNz
    /\ tpc = "input" /\ tsText = <<>> /\ tsParsed = 0
    /\ tsMs \in StampInputs

SpecStamp == InitStamp /\ [][NextStamp]_vars

\* render, parse, render again, for every well-formed list of blocks
InitRoundTrip ==
    /\ InitBase /\ InitPr /\ InitCk /\ InitTs /\ InitLg /\ InitRp /\ InitSp /\ InitPl
        /\ InitNz
    /\ spc = "input" /\ srtDoc = <<>> /\ srtParsed = <<>> /\ srtDoc2 = <<>>
    /\ srtIn \in WellFormedLists

SpecRoundTrip == InitRoundTrip /\ [][NextSrt]_vars

\* the log collected and rendered, for every log
InitLogRender ==
    /\ InitBase /\ InitPr /\ InitCk /\ InitTs /\ InitSrt /\ InitRp /\ InitSp /\ InitPl
        /\ InitNz
    /\ gpc = "input" /\ collected = <<>> /\ logDoc = <<>>
    /\ logContent \in Logs

SpecLogRender == InitLogRender /\ [][NextLogRender]_vars

\* every stream, cut into chunks in every way
InitSplit ==
    /\ InitBase /\ InitPr /\ InitCk /\ InitTs /\ InitSrt /\ InitLg /\ InitRp /\ InitPl
        /\ InitNz
    /\ sent = 0 /\ buffer = <<>> /\ cutInside = FALSE
    /\ stream \in Streams

SpecSplit == InitSplit /\ [][NextSplit]_vars

\* the stream handler on segments and final transcripts without text
SpecBlankFinal == InitFresh /\ [][NextBlankFinal]_vars

\* one segment of every kind, normalized for the collection and for its block
InitNormalize ==
    /\ InitBase /\ InitPr /\ InitCk /\ InitTs /\ InitSrt /\ InitLg /\ InitRp /\ InitSp
    /\ InitPl
    /\ zpc = "input" /\ storedSegment = NoSegment /\ renderable = NoSegment
    /\ rawSegment \in TimedRaws

SpecNormalize == InitNormalize /\ [][NextNormalize]_vars

\* the log monitor polling a log the backend appends to
InitPoll ==
    /\ InitBase /\ InitPr /\ InitCk /\ InitTs /\ InitSrt /\ InitLg /\ InitRp /\ InitSp
        /\ InitNz
    /\ InitPl

SpecPoll == InitPoll /\ [][NextPoll]_vars

\* no log-polling session or no event-stream session is under way: the
\* backend is a preference, and SpecWrite runs one transcription after the
\* other, in either mode, on the one subtitle file
LogQuiet == mpc \in {"idle", "returned", "thrown"}
FlushQuiet == opc \in {"prepare", "returned", "thrown"}

NextWrite ==
    \/ LogQuiet /\ NextFlush
    \/ FlushQuiet /\ NextLog

SpecWrite == InitFresh /\ [][NextWrite]_vars

(* ------------------------------ claims -------------------------------- *)
StopPcs == {"stop_term", "stop_sleep", "stop_kill"}
Ended(p) == pc[p] \in {"returned", "thrown"}

\* the TERM and KILL signals of a log, in order
SignalsIn(log) == SelectSeq(log, LAMBDA x : x[1] \in {"TERM", "KILL"})
\* a log without the warnings and the reset of activeServerInfo
StepsIn(log) == SelectSeq(log, LAMBDA x : x[1] \in {"TERM", "KILL", "CLEAR"})

\* C1: in the local-server path, once startWhisperServer has returned a
\* session, the transcription call returns or throws only after
\* stopWhisperServer has run for that session (TERM and KILL sent to its
\* pid, the record cleared), whether inference, finalize and the archive
\* copy succeeded or failed.
C1_StopBeforeReturn ==
    \A p \in Calls :
        (sessionReturned[p] /\ Ended(p)) =>
            /\ stopCount[p] >= 1
            /\ stopPid[p] = server[p]
            /\ SignalsIn(stopLog[p]) = << <<"TERM", server[p]>>, <<"KILL", server[p]>> >>

C1_Witness ==
    \E p \in Calls :
        /\ sessionReturned[p] /\ pc[p] = "thrown" /\ err[p] = "inference"
        /\ stopCount[p] = 1

\* C2: at most one backend process spawned by startWhisperServer is alive
\* at any time.
C2_OneBackendAlive == Cardinality(alive \cap SessionPids) <= 1

\* C3: from rememberServerPid for a backend until stopWhisperServer is
\* called for it, the PID record holds that backend's pid; so while the
\* record is absent no session's backend runs un-stopped.
C3_RecordTracksBackend ==
    \A p \in Calls :
        pc[p] \in {"probing", "probe_sleep", "inference", "finalize", "persist"} =>
            pidFile = server[p]

C5_SecondStopNoOp ==
    \A p \in Calls :
        (stopCount[p] >= 1 /\ (pc[p] \in StopPcs \/ stopCount[p] >= 2)) =>
            \A i \in 1..Len(stopLog[p]) :
                /\ stopLog[p][i][1] \notin {"TERM", "KILL", "UNSET"}
                /\ stopLog[p][i][1] = "CLEAR" => stopLog[p][i][2] = 0

\* C6: stopWhisperServer on a session with a pid sends TERM to the pid,
\* then KILL to the same pid, then clears the PID record as its last step;
\* a failed signal is not raised and prevents neither the KILL nor the
\* clearing.
C6_TwoPhaseStop ==
    \A p \in Calls :
        /\ ~stopRaised[p]
        /\ pc[p] = "stop_kill" =>
               SignalsIn(stopLog[p]) = << <<"TERM", stopPid[p]>>, <<"KILL", stopPid[p]>> >>
        /\ (stopCount[p] >= 1 /\ Ended(p)) =>
               /\ Len(StepsIn(stopLog[p])) = 3
               /\ StepsIn(stopLog[p])[1] = <<"TERM", server[p]>>
               /\ StepsIn(stopLog[p])[2] = <<"KILL", server[p]>>
               /\ stopLog[p][Len(stopLog[p])][1] = "CLEAR"
               /\ recordAfterStop[p] = Absent

C6_Witness ==
    \E p \in Calls :
        /\ stopCount[p] = 1 /\ Ended(p)
        /\ Len(SelectSeq(stopLog[p], LAMBDA x : x[1] = "WARN")) = 2
        /\ stopLog[p][Len(stopLog[p])][1] = "CLEAR"

\* C7: when the recovery routine has found a PID record and sent a signal
\* to the recorded pid, the record is absent when the routine finishes,
\* whatever became of TERM and KILL; a record that is no number is deleted
\* and no signal is sent.
C7_RecoveryClearsRecord ==
    \A r \in Recoveries :
        rpc[r] \in {"r_done", "r_rejected"} =>
            /\ rEndRecord[r] = Absent
            /\ rpid[r] = NoPid => rLog[r] = <<>>

\* C8: startWhisperServer returns a session exactly when a health probe
\* sent before the deadline of 20 000 ms answers 200; with probes every
\* 300 ms and nothing late, a backend ready after 19.7 s is in time and one
\* ready after 20.1 s is not; on a timeout stopWhisperServer has run on the
\* spawned pid before the call fails, and the error carries the latest
\* probe error.
C8_ReadyBeforeDeadline ==
    \A p \in ReadyCalls :
        /\ sessionReturned[p] <=> (okIssuedAt >= 0 /\ okIssuedAt < deadline)
        /\ err[p] = "timeout" =>
               /\ ~sessionReturned[p]
               /\ now >= deadline
               /\ lastError = lastAnswer /\ lastError # "none"
               /\ stopPid[p] = server[p]
        /\ (err[p] = "timeout" /\ pc[p] = "thrown") =>
               /\ stopCount[p] = 1
               /\ SignalsIn(stopLog[p]) =
                      << <<"TERM", server[p]>>, <<"KILL", server[p]>> >>
        /\ (ideal /\ readyAt <= TimeoutMs - 300) => err[p] # "timeout"
        /\ readyAt >= TimeoutMs + 100 => ~sessionReturned[p]

C8_Witness ==
    \E p \in ReadyCalls :
        /\ pc[p] = "thrown" /\ err[p] = "timeout"
        /\ stopCount[p] = 1
        /\ ideal /\ readyAt = TimeoutMs + 100
        /\ lastError = "network"

\* C9: the write-throughs of one stream handler never overlap and run in
\* the order of the scheduleFlush calls: one begins only when every one
\* scheduled before it has finished.
C9_WriteThroughsSerial ==
    /\ Cardinality({i \in 1..Len(tasks) : tasks[i].st = "running"}) <= 1
    /\ \A i, j \in 1..Len(tasks) :
           (i < j /\ tasks[j].st # "pending") => tasks[i].st = "done"

C9_Witness ==
    /\ Len(tasks) >= 3
    /\ tasks[1].st = "done" /\ tasks[2].st = "running" /\ tasks[3].st = "pending"
    /\ opc = "exec"

\* C10: waitForFlush resolves only when every write-through scheduled
\* before the call has finished, and transcribeWithOpenAI returns or throws
\* only when no scheduled write-through is pending, after a successful and
\* after a failed request.
C10_FlushedBeforeReturn ==
    /\ opc = "persist" => \A i \in 1..waitTail : tasks[i].st = "done"
    /\ opc \in {"returned", "thrown"} => \A i \in 1..Len(tasks) : tasks[i].st = "done"

C10_Witness ==
    /\ opc = "thrown" /\ oerr = "status"
    /\ Len(tasks) >= 2
    /\ \A i \in 1..Len(tasks) : tasks[i].st = "done"

\* C11: in the log-polling variant, once finalize has written the final
\* document the polling loop has ended and the subtitle file holds the
\* final document, no render of log lines being written after it; a call
\* that returns with a non-empty final document leaves that document in
\* the file.
C11_FinalDocumentLast ==
    /\ finalWritten => (lpc = "done" /\ subtitleFile = <<"final">>)
    /\ (mpc = "returned" /\ finalSrt = "doc") => finalWritten

C11_Witness ==
    /\ mpc = "returned" /\ finalSrt = "doc"
    /\ logSegs = MaxPolls
    /\ ioLog = << <<"write", <<"final">> >>, <<"reload", <<"final">> >> >>

HandlerAfter(n) == ProcessBuffer(NewHandler, SubSeq(processed, 1, n))
BeforeLine(i) == HandlerAfter(i - 1)
AfterLine(i) == IF i = Len(processed) THEN Handler ELSE HandlerAfter(i)
IdsOf(h) == {h.segments[k].id : k \in 1..Len(h.segments)}
IsSorted(segs) == \A k \in 1..(Len(segs) - 1) : segs[k].startMs <= segs[k + 1].startMs
IsEvent(line, type) == line.kind = "event" /\ line.event.type = type

\* C13: an incremental segment event or text-delta event removes no
\* segment id that was in the collection before the event.
C13_OnlyFinalRemoves ==
    \A i \in 1..Len(processed) :
        (\/ IsEvent(processed[i], "transcript.text.segment")
         \/ IsEvent(processed[i], "transcript.text.delta")) =>
            IdsOf(BeforeLine(i)) \subseteq IdsOf(AfterLine(i))

\* C14: after every successful upsert of a segment event and every reset by
\* a final transcript the collection is sorted ascending by startMs.
C14_SortedAfterUpsert ==
    \A i \in 1..Len(processed) :
        (\/ /\ IsEvent(processed[i], "transcript.text.segment")
            /\ NormalizeOpenAISegment(processed[i].event.segment) # NoSegment
         \/ /\ IsEvent(processed[i], "transcript.text.done")
            /\ processed[i].event.segments # <<>>) =>
            IsSorted(AfterLine(i).segments)

\* C15: upsertSegment with an id of the collection keeps the length; with a
\* new id the length grows by one and the collection is sorted by startMs;
\* with a blank text nothing changes and handleEvent schedules no flush.
C15_UpsertLength ==
    \A i \in 1..Len(processed) :
        IsEvent(processed[i], "transcript.text.segment") =>
            LET n == NormalizeOpenAISegment(processed[i].event.segment)
                b == BeforeLine(i)
                a == AfterLine(i)
            IN  /\ Trim(processed[i].event.segment.text) = <<>> => a = b
                /\ (n # NoSegment /\ n.id \in IdsOf(b)) =>
                       Len(a.segments) = Len(b.segments)
                /\ (n # NoSegment /\ n.id \notin IdsOf(b)) =>
                       /\ Len(a.segments) = Len(b.segments) + 1
                       /\ IsSorted(a.segments)

C15_Witness ==
    /\ Len(processed) = 3
    /\ IsEvent(processed[3], "transcript.text.segment")
    /\ Trim(processed[3].event.segment.text) = <<>>
    /\ Len(segments) = 2
    /\ segments[1].id = <<"id", 1>> /\ segments[2].id = <<"id", 2>>
    /\ processed[1].event.segment.id = 2

\* the texts of the lines, one after the other
RECURSIVE DeltaText(_)
DeltaText(lines) ==
    IF lines = <<>> THEN <<>> ELSE Head(lines).event.text \o DeltaText(Tail(lines))

\* C16: after a stream of text-delta events only, the collection holds one
\* synthesized segment whose text is the trimmed concatenation of the
\* deltas, nothing inserted between them.
C16_DeltasConcatenate ==
    (/\ processed # <<>>
     /\ \A i \in 1..Len(processed) : IsEvent(processed[i], "transcript.text.delta")) =>
        /\ Len(segments) = 1
        /\ segments[1].id = <<"text-only">>
        /\ JoinLines(segments[1].textLines) = Trim(DeltaText(processed))

\* C17: a final-transcript event with an empty segments array and no text
\* leaves the collection and the id-to-position map as they were.
C17_EmptyFinalKeeps ==
    \A i \in 1..Len(processed) :
        (/\ IsEvent(processed[i], "transcript.text.done")
         /\ processed[i].event.segments = <<>>
         /\ ~processed[i].event.hasText) =>
            /\ AfterLine(i).segments = BeforeLine(i).segments
            /\ AfterLine(i).segmentMap = BeforeLine(i).segmentMap

C17_Witness ==
    /\ Len(processed) = 3
    /\ IsEvent(processed[3], "transcript.text.done")
    /\ processed[3].event.segments = <<>> /\ ~processed[3].event.hasText
    /\ Len(segments) = 2

\* C18: the line `data: [DONE]` updates nothing and schedules no flush, and
\* no line processed after it changes the collection or schedules a flush.
C18_MarkerEndsStream ==
    \A j \in 1..Len(processed) :
        processed[j].kind = "marker" =>
            \A i \in j..Len(processed) : AfterLine(i) = BeforeLine(i)

\* a line that is skipped: no JSON, or a response.error event
IsBadLine(line) == line.kind = "malformed" \/ IsEvent(line, "response.error")

\* C19: a data line that is no JSON and a response.error event leave the
\* collection and the scheduled flushes unchanged, no exception leaves the
\* handler, and the handler ends as it does on the stream without them.
C19_BadLineSkipped ==
    /\ ~broken
    /\ \A i \in 1..Len(processed) :
           IsBadLine(processed[i]) => AfterLine(i) = BeforeLine(i)
    /\ Handler = ProcessBuffer(NewHandler,
                               SelectSeq(processed, LAMBDA l : ~IsBadLine(l)))

C19_Witness ==
    /\ Len(processed) = 3
    /\ processed[2].kind = "malformed"
    /\ IsEvent(processed[1], "transcript.text.segment")
    /\ IsEvent(processed[3], "transcript.text.segment")
    /\ Len(segments) = 2 /\ scheduledFlushes = 4

\* the backend reports a failure: JSON with an error object, no segments
\* and no text
IsFailureBody(body) ==
    body.json /\ body.error /\ body.segments = "absent" /\ body.text = "absent"

\* C20: when the remote backend answers the non-streaming request with a
\* failure body, transcribeWithOpenAI does not write the subtitle file and
\* does not return its path: the call ends by throwing.
C20_FailureNotWritten ==
    IsFailureBody(responseBody) =>
        /\ writtenSrt = "none"
        /\ npc \notin {"persist", "returned"}

\* C22: when audio preparation fails or the backend executable cannot be
\* located, transcribe fails without having spawned a backend process and
\* without having written the PID record in that call.
C22_NoBackendOnEarlyFailure ==
    \A p \in Calls :
        err[p] \in {"prepare", "config"} =>
            /\ server[p] = NoPid
            /\ PidOf(p) \notin alive
            /\ pidFile # PidOf(p)
            /\ activeServerInfo # PidOf(p)
            /\ ~sessionReturned[p]

C22_Witness ==
    \E p, q \in Calls :
        /\ pc[p] = "thrown" /\ err[p] = "prepare"
        /\ pc[q] = "thrown" /\ err[q] = "config"

\* C21: when the re-encoded audio is still above the 25 MB limit, the
\* overflow is handled locally and does not abort the transcription
\* session: transcribe does not throw because of it.
C21_OverflowNotFatal ==
    (~FitsLimit(wavSize) /\ ~FitsLimit(mp3Size)) =>
        ~(qpc = "thrown" /\ qerr = "toolarge")

\* ceil(d / w) for positive w
CeilDiv(d, w) == (d + w - 1) \div w

\* C23: for a duration D above the window W the chunk loop, when every
\* window succeeds, makes exactly ceil(D/W) window requests; window k
\* starts at (k-1)*W, every window but the last lasts W and the last lasts
\* D mod W (W when D is a multiple of W), so the windows cover [0, D)
\* without gap or overlap; for D at or below W, or unknown, exactly one
\* whole-file request and no window is made.
C23_WindowsCoverDuration ==
    LET D == totalDurationMs
        W == WindowMs
        n == Len(windowLog)
    IN  /\ (D > W /\ cpc = "returned") =>
            /\ n = CeilDiv(D, W)
            /\ wholeRequests = 0
            /\ \A k \in 1..n :
                /\ windowLog[k].start = (k - 1) * W
                /\ windowLog[k].outcome = "ok"
                /\ k < n => windowLog[k].duration = W
                /\ k = n => windowLog[k].duration =
                                (IF D % W = 0 THEN W ELSE D % W)
                /\ k < n => windowLog[k].start + windowLog[k].duration
                                = windowLog[k + 1].start
            /\ windowLog[n].start + windowLog[n].duration = D
        /\ (D <= W /\ cpc \in {"whole", "returned", "thrown"}) =>
            /\ wholeRequests = 1
            /\ n = 0

C23_Witness ==
    /\ cpc = "returned"
    /\ totalDurationMs = 2 * WindowMs + 5000
    /\ Len(windowLog) = 3
    /\ windowLog[3].duration = 5000

\* C24: removal of the temporary window file is attempted after every
\* window, also when its extraction or inference failed; a failed window
\* is the last one requested, and the error reaches the caller only after
\* the removal attempt.
C24_WindowFileRemoved ==
    LET n == Len(windowLog) IN
    /\ \A k \in 1..n :
        /\ k < n => (windowLog[k].removed /\ windowLog[k].outcome = "ok")
        /\ windowLog[k].outcome \in {"extract", "infer"} =>
            (k = n /\ cerr = windowLog[k].outcome)
    /\ (n > 0 /\ cpc \in {"thrown", "returned"}) => windowLog[n].removed
    /\ (n > 0 /\ cpc = "thrown") => windowLog[n].outcome = cerr

C24_Witness ==
    /\ cpc = "thrown"
    /\ Len(windowLog) = 2
    /\ cerr = "infer"
    /\ windowLog[2].removed
    /\ totalDurationMs > 2 * WindowMs

\* C25: parseTimestampMs(formatTimestamp(x)) equals x for every
\* non-negative integer x, also for 360 000 000 ms and above, where the
\* hours field has more than two digits.
C25_StampRoundTrip == tpc = "parsed" => tsParsed = tsMs

\* C26: for a well-formed list S of blocks with valid, non-overlapping
\* timing lines, rendering S, parsing the result with parseSrtBlocks and
\* rendering again gives the timing lines and text lines of the first
\* rendering, in the same order.
C26_RenderParseRender ==
    spc = "rerendered" =>
        /\ srtParsed = srtIn
        /\ srtDoc2 = srtDoc

C26_Witness ==
    /\ spc = "rerendered"
    /\ Len(srtIn) = 2
    /\ Len(srtIn[1].text) = 2
    /\ srtIn[2].text = << <<"4", "2">> >>
    /\ Len(srtDoc2) > 60

\* the block the claim gives for entry e at position i: index, timing with
\* commas, text, each followed by a line break, and a blank line
ClaimedBlock(e, i) ==
    DecimalText(i) \o <<"\n">> \o TimingLine(e.start, e.end) \o <<"\n">>
        \o e.text \o <<"\n", "\n">>

RECURSIVE ClaimedDocument(_, _)
ClaimedDocument(entries, i) ==
    IF entries = <<>> THEN <<>>
    ELSE ClaimedBlock(Head(entries), i) \o ClaimedDocument(Tail(entries), i + 1)

\* every line of the log is a segment and the starts ascend strictly
AscendingSegments(entries) ==
    /\ entries # <<>>
    /\ \A i \in 1..Len(entries) : entries[i].kind = "segment"
    /\ \A i \in 1..(Len(entries) - 1) : entries[i].start < entries[i + 1].start

\* C27: for a log whose matching lines are in ascending start order the
\* rendered document is the concatenation of the blocks
\* `i\nstart --> end\ntext\n\n`, the last block too ending with a blank
\* line.
C27_LogDocument ==
    (gpc = "rendered" /\ AscendingSegments(logContent)) =>
        logDoc = ClaimedDocument(logContent, 1)

\* C28: in every state of the event-stream collection no two entries of
\* the segments sequence share an id, and segmentMap holds exactly the ids
\* of the sequence, each mapped to the position of the segment with that
\* id.
C28_MapMatchesSequence ==
    /\ \A j, k \in 1..Len(segments) : segments[j].id = segments[k].id => j = k
    /\ DOMAIN segmentMap = IdsOf(Handler)
    /\ \A k \in 1..Len(segments) : segmentMap[segments[k].id] = k

\* a segment with a new id was sorted in before another one, and a segment
\* with a known id was replaced
C28_Witness ==
    /\ Len(segments) >= 2
    /\ \E i \in 1..Len(processed) :
        /\ IsEvent(processed[i], "transcript.text.segment")
        /\ LET n == NormalizeOpenAISegment(processed[i].event.segment) IN
            /\ n # NoSegment
            /\ n.id \notin IdsOf(BeforeLine(i))
            /\ AfterLine(i).segmentMap[n.id] < Len(AfterLine(i).segments)
    /\ \E i \in 1..Len(processed) :
        /\ IsEvent(processed[i], "transcript.text.segment")
        /\ LET n == NormalizeOpenAISegment(processed[i].event.segment) IN
            /\ n # NoSegment
            /\ n.id \in IdsOf(BeforeLine(i))

\* the segments of a final transcript that normalize to a segment
NormalizedOf(raws) ==
    {NormalizeOpenAISegment(raws[k]) : k \in 1..Len(raws)} \ {NoSegment}

IsFinalWithSegments(line) ==
    IsEvent(line, "transcript.text.done") /\ line.event.segments # <<>>

\* C29: a final-transcript event with a non-empty segments list replaces
\* the collection atomically: afterwards the collection holds exactly the
\* normalized segments of that list, no interim segment survives, and no
\* write-through renders a collection other than the one between two
\* whole events (never the cleared, partly refilled one).
C29_FinalReplaces ==
    /\ \A i \in 1..Len(processed) :
        IsFinalWithSegments(processed[i]) =>
            LET a == AfterLine(i).segments IN
            {a[k] : k \in 1..Len(a)} = NormalizedOf(processed[i].event.segments)
    /\ subtitleFile # <<"old">> =>
        \E n \in 0..Len(processed) : subtitleFile[2] = HandlerAfter(n).segments

\* interim segments, then the final transcript, then its write-through
C29_Witness ==
    /\ Len(processed) >= 2
    /\ IsEvent(processed[1], "transcript.text.segment")
    /\ NormalizeOpenAISegment(processed[1].event.segment) # NoSegment
    /\ IsFinalWithSegments(processed[Len(processed)])
    /\ NormalizeOpenAISegment(processed[1].event.segment)
            \notin NormalizedOf(processed[Len(processed)].event.segments)
    /\ flushesRun = scheduledFlushes
    /\ subtitleFile = <<"openai", segments>>
    /\ Len(segments) = 2

\* the stream brought by one chunk and finalized
WholeStream == ProcessBufferText(HandleChunkText(NewHandlerText, stream), TRUE)

\* the events among lines
EventsIn(lines) == SelectSeq(lines, LAMBDA l : l.kind = "event")

\* the lines of the text in their order, each trimmed and classified
LinesInOrder(t) ==
    LET pieces == SplitAtBreaks(t, <<>>)
    IN  [i \in 1..Len(pieces) |-> ClassifyLine(Trim(pieces[i]))]

IsPrefix(a, b) == Len(a) <= Len(b) /\ a = SubSeq(b, 1, Len(a))

\* C30: the result of ingesting the stream does not depend on how it is
\* cut into chunks: after finalize the events handled and the collection
\* are those of the stream brought in one piece, and events are handled in
\* the order of their lines in the stream.
C30_SplitIndependent ==
    /\ IsPrefix(processed, WholeStream.lines)
    /\ IsPrefix(EventsIn(processed), EventsIn(LinesInOrder(stream)))
    /\ finalized =>
        /\ processed = WholeStream.lines
        /\ Handler = WholeStream.h
        /\ buffer = WholeStream.buffer
        /\ EventsIn(processed) = EventsIn(LinesInOrder(stream))

C30_Witness ==
    /\ finalized
    /\ cutInside
    /\ Len(EventsIn(processed)) = 2
    /\ Len(segments) = 2
    /\ stream[Len(stream)] # "\n"

(* ------------------------------ C31 ----------------------------------- *)
\* the (start, end, text) triples of the segment lines among the first n
\* lines of the log
LogKeys(n) ==
    { <<LogStamp(pollLog[i].start), LogStamp(pollLog[i].end), pollLog[i].text>> :
        i \in {j \in 1..n : pollLog[j].kind = "segment"} }

\* C31: over the polls of the log monitor, each of which reads the log
\* from its start, every distinct (start, end, text) triple found so far
\* has contributed exactly one segment: the segments are as many as the
\* distinct keys seen, the keys seen are the triples of the lines polled,
\* and no two segments are the same; and a poll that finds no key it has
\* not seen leaves the subtitle file and its track alone
C31_OneSegmentPerKey ==
    /\ [](/\ Len(pollSegments) = Cardinality(seen)
          /\ seen = LogKeys(polledLines)
          /\ \A i, j \in 1..Len(pollSegments) :
                pollSegments[i] = pollSegments[j] => i = j)
    /\ [][(pollCount' = pollCount + 1 /\ LogKeys(Len(pollLog)) \subseteq seen)
            => UNCHANGED ioVars]_vars

\* a second poll has read a log that repeats a segment line and holds
\* nothing unseen, after an earlier poll collected segments
C31_Witness ==
    /\ pollCount >= 2
    /\ ~pollUpdated
    /\ polledLines = Len(pollLog)
    /\ Len(pollSegments) >= 1
    /\ Cardinality(LogKeys(Len(pollLog))) <
           Cardinality({i \in 1..Len(pollLog) : pollLog[i].kind = "segment"})

(* ------------------------------ C32 ----------------------------------- *)
\* C32: the segment stored in the collection of the stream handler, and
\* the segment its block is rendered from, has 0 <= startMs < endMs,
\* whatever start and end the event carried
C32_PositiveDuration ==
    /\ zpc \in {"stored", "rendered"} /\ storedSegment # NoSegment
          => 0 <= storedSegment.startMs /\ storedSegment.startMs < storedSegment.endMs
    /\ zpc = "rendered"
          => 0 <= renderable.startMs /\ renderable.startMs < renderable.endMs

(* ------------------------------ C33 ----------------------------------- *)
\* C33: a segment whose event carries a start and no end ends, in the
\* collection and in its block, 320 ms for each word of its text after
\* its start
C33_EstimatedEnd ==
    /\ zpc \in {"stored", "rendered"} /\ rawSegment.end = NoEnd
          => storedSegment.endMs = storedSegment.startMs
                              + AverageMsPerWord * WordCount(rawSegment.text, FALSE)
    /\ zpc = "rendered" /\ rawSegment.end = NoEnd
          => renderable.endMs = renderable.startMs
                              + AverageMsPerWord * WordCount(rawSegment.text, FALSE)

(* ------------------------------ C34 ----------------------------------- *)
\* the blocks of the windows that succeeded so far, in window order, each
\* moved by the start of its window
RECURSIVE BlocksSoFar(_)
BlocksSoFar(windows) ==
    IF windows = <<>> THEN <<>>
    ELSE LET w == Head(windows)
             offsetMs == (w.window - 1) * WindowMs
         IN  [i \in 1..Len(w.blocks) |->
                 Block(w.blocks[i].startMs + offsetMs, w.blocks[i].endMs + offsetMs,
                       w.blocks[i].text)]
             \o BlocksSoFar(Tail(windows))

\* C34: once a window has succeeded the subtitle file holds the document
\* of the blocks of all the windows that succeeded so far, in window
\* order, each shifted by the start of its window, also after a later
\* window has failed; before that it is untouched; and from one write of
\* the loop to the next the document only grows at its end
C34_WindowsAccumulate ==
    /\ [](IF answered # <<>>
          THEN /\ subtitleFile = RenderBlocksToSrt(BlocksSoFar(answered))
               /\ \A k \in 1..Len(answered) : answered[k].window = k
          ELSE subtitleFile = <<"old">>)
    /\ [][(answered # <<>> /\ answered' # answered)
            => IsPrefix(subtitleFile, subtitleFile')]_vars

\* the third window has failed after two windows with blocks succeeded
C34_Witness ==
    /\ cpc = "thrown"
    /\ Len(windowLog) = 3
    /\ windowLog[3].outcome \in {"extract", "infer"}
    /\ Len(answered) = 2
    /\ answered[1].blocks # <<>>
    /\ Len(answered[2].blocks) = 2

(* ------------------------------ C35 ----------------------------------- *)
\* C35: a run of the recovery routine that deletes the PID record deletes
\* a record that still holds the pid the run read and signalled, also
\* when a session start or another run has written or deleted the record
\* in between
C35_DeletesOnlyOwnRecord ==
    [][\A r \in Recoveries :
          (rpc[r] = "r_kill" /\ rpc'[r] = "r_done"
              /\ pidFile # Absent /\ pidFile' = Absent) => pidFile = rpid[r]]_vars

(* ------------------------------ C36 ----------------------------------- *)
\* C36: when transcribeWithOpenAI returns the subtitle path, the subtitle
\* file has been written during the call and holds the document of the
\* collection as the handler holds it at the end, whatever the stream
\* carried
C36_ReturnedFileIsFinal ==
    opc = "returned" =>
        /\ fileVer >= 0
        /\ subtitleFile = <<"openai", docVer>>

(* ------------------------------ C37 ----------------------------------- *)
\* a final transcript with a non-empty list of segments, none with text
IsBlankFinal(line) ==
    /\ IsEvent(line, "transcript.text.done")
    /\ line.event.segments # <<>>
    /\ \A k \in 1..Len(line.event.segments) :
            NormalizeOpenAISegment(line.event.segments[k]) = NoSegment

\* C37: a final transcript whose list of segments is not empty and holds
\* no segment with text leaves a collection that was not empty as it
\* was, and the empty document is not written for it
C37_BlankFinalKeepsInterim ==
    /\ \A i \in 1..Len(processed) :
           (IsBlankFinal(processed[i]) /\ BeforeLine(i).segments # <<>>)
               => AfterLine(i).segments = BeforeLine(i).segments
    /\ subtitleFile # <<"openai", <<>> >>

(* ------------------------------ C38 ----------------------------------- *)
\* C38: a write-through whose file.write raised is only logged: its
\* promise resolves, the write-throughs scheduled after it run in their
\* order once it is over, and when transcribeWithOpenAI is over every one
\* of them has run, waitForFlush having resolved
C38_FailedWriteOnlyLogged ==
    \A i \in 1..Len(tasks) :
        tasks[i].outcome = "failed" =>
            /\ tasks[i].st \in {"running", "done"}
            /\ \A j \in (i + 1)..Len(tasks) :
                  /\ tasks[j].st # "pending" => tasks[i].st = "done"
                  /\ tasks[j].st \in {"pending", "running", "done"}
                  /\ opc \in {"returned", "thrown"} =>
                         tasks[j].st = "done" /\ tasks[j].outcome # "none"
            /\ opc \in {"wait", "persist"} /\ i <= waitTail => oerr = "none"

\* the first write-through failed, the two after it wrote the file, and
\* the call returned the path
C38_Witness ==
    /\ opc = "returned" /\ oerr = "none"
    /\ Len(tasks) >= 3
    /\ tasks[1].outcome = "failed"
    /\ tasks[2].outcome = "written" /\ tasks[3].outcome = "written"
    /\ fileVer = docVer

(* ------------------------------ C39 ----------------------------------- *)
\* C39: the polling loop ends only after finalize has set stopRequested,
\* whatever errors its iterations caught; once stopRequested is set no
\* further iteration collects segments, the loop ends, and finalize and
\* with it streamTranscription come to an end
C39_LoopEndsAfterFinalize ==
    /\ [](lpc = "done" => stopRequested)
    /\ [][stopRequested => logSegs' = logSegs]_vars
    /\ stopRequested ~> (lpc = "done")
    /\ stopRequested ~> (mpc \in {"returned", "thrown"})

\* two iterations wrote nothing because file.write raised, the loop went
\* on until finalize was called without a document, and the call returned
C39_Witness ==
    /\ logSegs = 2
    /\ subtitleFile = <<"old">>
    /\ stopRequested
    /\ lpc = "done"
    /\ mpc = "returned"

====
